---- MODULE Spec2Model ----
(***************************************************************************)
(* FinNepal ERP: the single-page application as a state machine.          *)
(*                                                                         *)
(* The router (App), the PrivateRoute guard, the Accounting page and the   *)
(* Sales page are modelled with the hosted document store and the promises *)
(* that are in flight against it.  Spec follows the data access of the two *)
(* pages while the signed-in user changes; SpecLedger and SpecSales follow *)
(* one page with its form; SpecRoute follows the route tree; SpecReports   *)
(* applies the reports export to pairs of page states.                     *)
(***************************************************************************)
EXTENDS Integers, Sequences, FiniteSets, TLC

VARIABLES
    authLoading,   \* AuthContext: loading
    user,          \* AuthContext: user
    location,      \* the router's current path
    rendered,      \* the element the route tree renders at this location
    store,         \* the hosted document store, one sequence of documents per collection
    fetches,       \* getDocs promises in flight, in the order they were issued
    ledgerWrites,  \* addDoc promises of Accounting.handleSubmit in flight
    invoiceWrites, \* addDoc promises of Sales.handleSubmit in flight
    console,       \* console.error: the last message, and the parity of their number
    accounting,    \* component state of the Accounting page
    sales,         \* component state of the Sales page
    language,      \* i18n.language
    twin,          \* a second Accounting page: its user and its two lists
    exported,      \* what handleExportReportsExcel built, for the page and for the twin
    downloads,     \* the calls of generateExcel: the options and the file written
    body           \* document.body: the elements handlePrint has appended and not removed

vars == <<authLoading, user, location, rendered, store, fetches, ledgerWrites,
          invoiceWrites, console, accounting, sales, language, twin, exported,
          downloads, body>>

----------------------------------------------------------------------------
(* Bounds of the model *)

MaxInFlight == 3      \* promises in flight at once
MaxWrites == 1        \* documents the application adds to one collection
MaxItems == 1         \* line items in the invoice form, with the invoice list
MaxFormItems == 2     \* line items in the invoice form, on its own
MaxDownloads == 2     \* calls of generateExcel
MaxLedgerWrites == 2  \* ledger entries added through the form as it stands
MaxInvoiceWrites == 2 \* invoices added by the users of one tenant
MaxEntries == 2       \* entries in a list that is exported
MaxExports == 1       \* files written from the ledger and journal tabs
MaxPrints == 2        \* print elements appended to the body

----------------------------------------------------------------------------
(* Users, as useAuth() hands them to the components.  A user with          *)
(* tenantId "" has no tenant identifier (undefined is falsy, as "" is).    *)

NoUser == [present |-> FALSE, uid |-> "", tenantId |-> "", role |-> ""]

SignedIn ==
    { [present |-> TRUE, uid |-> "u1", tenantId |-> "t1", role |-> "admin"],
      [present |-> TRUE, uid |-> "u2", tenantId |-> "t2", role |-> "user"],
      [present |-> TRUE, uid |-> "u3", tenantId |-> "", role |-> "user"] }

Users == SignedIn \cup {NoUser}

\* The dependency list of an effect that has not run yet.
NotRun == [present |-> FALSE, uid |-> "not run", tenantId |-> "", role |-> ""]

\* console.error(message, error).  The log is unbounded; the model keeps the
\* last message and whether the number of messages is odd, so that every
\* call changes the console.
NoErrors == [last |-> "", odd |-> FALSE]

Logged(log, message) == [last |-> message, odd |-> ~log.odd]

RemoveAt(s, i) == SubSeq(s, 1, i - 1) \o SubSeq(s, i + 1, Len(s))

InFlight == Len(fetches) + Len(ledgerWrites) + Len(invoiceWrites)

----------------------------------------------------------------------------
(* Routing *)

\* PrivateRoute with its two checks in the other order.
PrivateRouteUserFirst(loading, u, children) ==
    IF ~u.present THEN "Navigate"
    ELSE IF loading THEN "Spinner"
    ELSE children

PrivateRoute(loading, u, children) ==
    IF loading THEN "Spinner"
    ELSE IF ~u.present THEN "Navigate"
    ELSE children

ProtectedPage(path) ==
    CASE path = "/" -> "Dashboard"
      [] path = "/sales" -> "Sales"
      [] path = "/purchases" -> "Purchases"
      [] path = "/accounting" -> "Accounting"
      [] path = "/reports" -> "Reports"
      [] path = "/settings" -> "Settings"
      [] OTHER -> "NoMatch"

ProtectedPaths == {"/", "/sales", "/purchases", "/accounting", "/reports", "/settings"}

ProtectedPages == {ProtectedPage(p) : p \in ProtectedPaths}

\* App with the settings route declared beside /login, outside the guard.
AppSettingsOutside(path, loading, u) ==
    IF path = "/login" THEN "Login"
    ELSE IF path = "/settings" THEN "Settings"
    ELSE IF path \in ProtectedPaths THEN PrivateRoute(loading, u, ProtectedPage(path))
    ELSE "NoMatch"

App(path, loading, u) ==
    IF path = "/login" THEN "Login"
    ELSE IF path \in ProtectedPaths THEN PrivateRoute(loading, u, ProtectedPage(path))
    ELSE "NoMatch"

navigationItems ==
    <<"/dashboard", "/sales", "/purchases", "/accounting", "/bank", "/reports",
      "/inventory", "/ird", "/settings">>

adminItems == <<"/users">>

isAdmin(u) == u.role = "admin"

Sidebar(u) ==
    {navigationItems[i] : i \in DOMAIN navigationItems}
        \cup (IF isAdmin(u) THEN {adminItems[i] : i \in DOMAIN adminItems} ELSE {})

Paths == {"/login"} \cup ProtectedPaths \cup Sidebar([NoUser EXCEPT !.role = "admin"])

----------------------------------------------------------------------------
(* The document store *)

\* The lines of a journal entry (JournalEntry.entries).
JournalLines ==
    << [account |-> "Cash", debit |-> 1, credit |-> 0],
       [account |-> "Sales", debit |-> 0, credit |-> 1] >>

InitialStore ==
    [ledgerEntries |->
        << [id |-> 1, date |-> "2024-01-10", account |-> "Cash", description |-> "Opening",
            debit |-> 1, credit |-> 0, tenantId |-> "t1"],
           [id |-> 2, date |-> "2024-01-20", account |-> "Cash", description |-> "Opening",
            debit |-> 0, credit |-> 1, tenantId |-> "t2"] >>,
     journalEntries |->
        << [id |-> 1, date |-> "2024-01-10", description |-> "Adjustment",
            entries |-> JournalLines, tenantId |-> "t1"],
           [id |-> 2, date |-> "2024-01-20", description |-> "Adjustment",
            entries |-> JournalLines, tenantId |-> "t2"] >>,
     invoices |-> << >>]

\* Documents the application has added to a collection.
LedgerWritten == Len(store.ledgerEntries) - Len(InitialStore.ledgerEntries)

\* getDocs(query(collection(db, coll), where('tenantId', '==', value)))
getDocs(coll, value) == SelectSeq(store[coll], LAMBDA d : d.tenantId = value)

----------------------------------------------------------------------------
(* Component state *)

FormInit == [date |-> "", account |-> "", description |-> "", debit |-> 0, credit |-> 0]

\* new Date().toISOString().split('T')[0]
Today == "2024-01-15"

AccountingInit ==
    [activeTab |-> "ledger", ledgerEntries |-> << >>, journalEntries |-> << >>,
     loading |-> TRUE, showForm |-> FALSE, formData |-> FormInit,
     dateRange |-> [from |-> Today, to |-> Today], deps |-> NotRun]

ItemInit == [description |-> "", quantity |-> 1, rate |-> 0, amount |-> 0]

SalesInit ==
    [invoices |-> << >>, loading |-> FALSE, showForm |-> FALSE, customerName |-> "",
     date |-> Today, items |-> <<ItemInit>>]

\* No second page is compared, and nothing has been exported.
NoTwin == [user |-> NoUser, ledgerEntries |-> << >>, journalEntries |-> << >>]

NotExported == [done |-> FALSE, page |-> << >>, twin |-> << >>]

\* The route tree after a change of location or of the auth context: the
\* element rendered, and the state of the pages (a page that is not kept
\* mounted starts again from its initial state).
Render(path, loading, u) ==
    LET r == App(path, loading, u) IN
    /\ rendered' = r
    /\ accounting' = IF r = rendered THEN accounting ELSE AccountingInit
    /\ sales' = IF r = rendered THEN sales ELSE SalesInit
    /\ UNCHANGED <<fetches, ledgerWrites, invoiceWrites>>

----------------------------------------------------------------------------
(* utils/excelGenerator: generateExcel.  An object handed to the library   *)
(* is a function from its keys to its values; a sheet is its name, its     *)
(* columns and one sequence of cells per data row.                         *)

\* The keys of the objects of data that are not among the columns yet, in
\* the order of the objects.  (The order of the keys inside one object is
\* not kept by the model: the rows used have one such key at most.)
RECURSIVE ExtraKeys(_, _)
ExtraKeys(data, columns) ==
    IF data = << >> THEN columns
    ELSE LET known == {columns[c] : c \in DOMAIN columns}
             extra == DOMAIN Head(data) \ known
         IN ExtraKeys(Tail(data),
                      IF extra = {} THEN columns
                      ELSE Append(columns, CHOOSE key \in extra : TRUE))

\* XLSX.utils.json_to_sheet(data, { header }): the header keys come first,
\* in their order, then the other keys of the objects; an object without a
\* key leaves that cell empty.
json_to_sheet(data, header) ==
    LET columns == ExtraKeys(data, header) IN
    [columns |-> columns,
     rows |-> [r \in DOMAIN data |->
                 [c \in DOMAIN columns |->
                     IF columns[c] \in DOMAIN data[r] THEN data[r][columns[c]] ELSE ""]]]

\* generateExcel: book_new, json_to_sheet, book_append_sheet, writeFile.
generateExcel(options) ==
    LET workbook == << >>
        worksheet == json_to_sheet(options.data, options.headers)
        appended == Append(workbook, [name |-> options.sheetName,
                                      columns |-> worksheet.columns,
                                      rows |-> worksheet.rows])
    IN [name |-> options.filename \o ".xlsx", sheets |-> appended]

\* generateExcel appending to the workbook of the call before it.
ExcelExportSharedWorkbook(options) ==
    /\ Len(downloads) < MaxDownloads
    /\ LET worksheet == json_to_sheet(options.data, options.headers)
           workbook == IF downloads = << >> THEN << >>
                       ELSE downloads[Len(downloads)].file.sheets
       IN downloads' = Append(downloads,
             [options |-> options,
              file |-> [name |-> options.filename \o ".xlsx",
                        sheets |-> Append(workbook, [name |-> options.sheetName,
                                                     columns |-> worksheet.columns,
                                                     rows |-> worksheet.rows])]])
    /\ UNCHANGED <<authLoading, user, location, rendered, store, fetches, ledgerWrites,
                   invoiceWrites, console, accounting, sales, language, twin, exported, body>>

\* A call of generateExcel.
ExcelExport(options) ==
    /\ Len(downloads) < MaxDownloads
    /\ downloads' = Append(downloads, [options |-> options, file |-> generateExcel(options)])
    /\ UNCHANGED <<authLoading, user, location, rendered, store, fetches, ledgerWrites,
                   invoiceWrites, console, accounting, sales, language, twin, exported, body>>

\* Options generateExcel is called with: file and sheet names, headers in
\* two orders and of two lengths, rows with and without a key of their own.
ExcelRows ==
    LET first == ("Date" :> "2024-01-10" @@ "Debit" :> "1.00")
        second == ("Date" :> "2024-01-20" @@ "Debit" :> "0.00" @@ "Note" :> "n")
    IN {<< >>, <<first>>, <<first, second>>, <<second, first>>}

ExcelOptions ==
    [filename : {"ledger-entries", "sales-invoices"},
     sheetName : {"Ledger", "Sales"},
     data : ExcelRows,
     headers : {<<"Date", "Debit">>, <<"Debit", "Date">>, <<"Date">>}]

----------------------------------------------------------------------------
(* AuthContext and navigation *)

\* The auth provider learns who is signed in.
AuthResolved(u) ==
    /\ authLoading
    /\ authLoading' = FALSE
    /\ user' = u
    /\ Render(location, FALSE, u)
    /\ UNCHANGED <<location, store, console, language, twin, exported, downloads, body>>

\* The auth provider resolves the session again (loading is set once more).
AuthReloading ==
    /\ ~authLoading
    /\ authLoading' = TRUE
    /\ Render(location, TRUE, user)
    /\ UNCHANGED <<user, location, store, console, language, twin, exported, downloads, body>>

\* Login, logout, or a change of the signed-in user's profile.
AuthChange(u) ==
    /\ ~authLoading
    /\ u # user
    /\ user' = u
    /\ Render(location, authLoading, u)
    /\ UNCHANGED <<authLoading, location, store, console, language, twin, exported, downloads, body>>

\* <Navigate to="/login" replace />
Navigate ==
    /\ rendered = "Navigate"
    /\ location' = "/login"
    /\ Render("/login", authLoading, user)
    /\ UNCHANGED <<authLoading, user, store, console, language, twin, exported, downloads, body>>

\* A click on a sidebar link of the shared layout.
Link(path) ==
    /\ rendered \in ProtectedPages
    /\ path \in Sidebar(user)
    /\ path # location
    /\ location' = path
    /\ Render(path, authLoading, user)
    /\ UNCHANGED <<authLoading, user, store, console, language, twin, exported, downloads, body>>

\* Layout.toggleLanguage, handed to the navbar of the shared layout:
\* i18n.changeLanguage(i18n.language === 'en' ? 'ne' : 'en')
toggleLanguage(lng) == IF lng = "en" THEN "ne" ELSE "en"

LayoutToggleLanguage ==
    /\ rendered \in ProtectedPages
    /\ language' = toggleLanguage(language)
    /\ UNCHANGED <<authLoading, user, location, rendered, store, fetches, ledgerWrites,
                   invoiceWrites, console, accounting, sales, twin, exported, downloads, body>>

\* Navbar.toggleLanguage with a mistyped language code.
NavbarToggleLanguageTypo(lng) == IF lng = "en" THEN "np" ELSE "en"

\* Navbar.toggleLanguage, the handler of the language button:
\* i18n.changeLanguage(i18n.language === 'en' ? 'ne' : 'en')
NavbarToggleLanguage(lng) == IF lng = "en" THEN "ne" ELSE "en"

\* A click on the language button of the navbar.
NavbarLanguageClick ==
    /\ rendered \in ProtectedPages
    /\ language' = NavbarToggleLanguage(language)
    /\ UNCHANGED <<authLoading, user, location, rendered, store, fetches, ledgerWrites,
                   invoiceWrites, console, accounting, sales, twin, exported, downloads, body>>

\* Values i18n.language can hold: the two resource languages and others.
Languages == {"en", "ne", "en-US", "hi", ""}

----------------------------------------------------------------------------
(* Accounting page *)

\* The inputs the model types into, and the values typed.  The account and
\* description inputs are text inputs handled as the date input is.
FormFields == {"date", "debit", "credit"}
FormDates == {"", "2024-01-15"}
Amounts == {0, 1}

FormValues(field) ==
    CASE field = "date" -> FormDates
      [] field = "debit" -> Amounts
      [] field = "credit" -> Amounts

\* The page is past its loading branch and its effect has been flushed, so
\* its buttons and inputs can be used.
AccountingReady ==
    /\ rendered = "Accounting"
    /\ ~accounting.loading
    /\ accounting.deps = user

LedgerTenant(u) == u.tenantId

fetchLedgerEntries(u) ==
    IF ~u.present \/ u.tenantId = "" THEN << >>
    ELSE << [kind |-> "fetchLedgerEntries", coll |-> "ledgerEntries",
             user |-> u, value |-> LedgerTenant(u)] >>

fetchJournalEntries(u) ==
    IF ~u.present \/ u.tenantId = "" THEN << >>
    ELSE << [kind |-> "fetchJournalEntries", coll |-> "journalEntries",
             user |-> u, value |-> u.tenantId] >>

\* The effect leaving loading as it is (the flag cleared by the fetches instead).
AccountingEffectKeepsLoading ==
    /\ rendered = "Accounting"
    /\ accounting.deps # user
    /\ LET issued == fetchLedgerEntries(user) \o fetchJournalEntries(user) IN
        /\ InFlight + Len(issued) <= MaxInFlight
        /\ fetches' = fetches \o issued
    /\ accounting' = [accounting EXCEPT !.deps = user]
    /\ UNCHANGED <<authLoading, user, location, rendered, store, ledgerWrites,
                   invoiceWrites, console, sales, language, twin, exported, downloads, body>>

\* useEffect(() => { ... }, [user]): runs after the first render and after
\* every render in which user changed.
AccountingEffect ==
    /\ rendered = "Accounting"
    /\ accounting.deps # user
    /\ LET issued == fetchLedgerEntries(user) \o fetchJournalEntries(user) IN
        /\ InFlight + Len(issued) <= MaxInFlight
        /\ fetches' = fetches \o issued
    /\ accounting' = [accounting EXCEPT !.loading = FALSE, !.deps = user]
    /\ UNCHANGED <<authLoading, user, location, rendered, store, ledgerWrites,
                   invoiceWrites, console, sales, language, twin, exported, downloads, body>>

\* fetchLedgerEntries dropping a result that is not for the current user.
fetchLedgerEntriesResolvedIfCurrent(i) ==
    /\ i \in DOMAIN fetches
    /\ fetches[i].kind = "fetchLedgerEntries"
    /\ fetches' = RemoveAt(fetches, i)
    /\ accounting' =
         IF fetches[i].user = user
         THEN [accounting EXCEPT !.ledgerEntries = getDocs("ledgerEntries", fetches[i].value)]
         ELSE accounting
    /\ UNCHANGED <<authLoading, user, location, rendered, store, ledgerWrites,
                   invoiceWrites, console, sales, language, twin, exported, downloads, body>>

fetchLedgerEntriesResolved(i) ==
    /\ i \in DOMAIN fetches
    /\ fetches[i].kind = "fetchLedgerEntries"
    /\ fetches' = RemoveAt(fetches, i)
    /\ accounting' = [accounting EXCEPT !.ledgerEntries = getDocs("ledgerEntries", fetches[i].value)]
    /\ UNCHANGED <<authLoading, user, location, rendered, store, ledgerWrites,
                   invoiceWrites, console, sales, language, twin, exported, downloads, body>>

\* fetchLedgerEntries emptying the list in its catch block.
fetchLedgerEntriesRejectedClearing(i) ==
    /\ i \in DOMAIN fetches
    /\ fetches[i].kind = "fetchLedgerEntries"
    /\ fetches' = RemoveAt(fetches, i)
    /\ console' = Logged(console, "Error fetching ledger entries:")
    /\ accounting' = [accounting EXCEPT !.ledgerEntries = << >>]
    /\ UNCHANGED <<authLoading, user, location, rendered, store, ledgerWrites,
                   invoiceWrites, sales, language, twin, exported, downloads, body>>

fetchLedgerEntriesRejected(i) ==
    /\ i \in DOMAIN fetches
    /\ fetches[i].kind = "fetchLedgerEntries"
    /\ fetches' = RemoveAt(fetches, i)
    /\ console' = Logged(console, "Error fetching ledger entries:")
    /\ UNCHANGED <<authLoading, user, location, rendered, store, ledgerWrites,
                   invoiceWrites, accounting, sales, language, twin, exported, downloads, body>>

fetchJournalEntriesResolved(i) ==
    /\ i \in DOMAIN fetches
    /\ fetches[i].kind = "fetchJournalEntries"
    /\ fetches' = RemoveAt(fetches, i)
    /\ accounting' = [accounting EXCEPT !.journalEntries = getDocs("journalEntries", fetches[i].value)]
    /\ UNCHANGED <<authLoading, user, location, rendered, store, ledgerWrites,
                   invoiceWrites, console, sales, language, twin, exported, downloads, body>>

fetchJournalEntriesRejected(i) ==
    /\ i \in DOMAIN fetches
    /\ fetches[i].kind = "fetchJournalEntries"
    /\ fetches' = RemoveAt(fetches, i)
    /\ console' = Logged(console, "Error fetching journal entries:")
    /\ UNCHANGED <<authLoading, user, location, rendered, store, ledgerWrites,
                   invoiceWrites, accounting, sales, language, twin, exported, downloads, body>>

\* onChange of one input of the ledger form: setFormData({ ...formData, [field]: value })
setFormData(field, value) ==
    /\ AccountingReady
    /\ accounting.activeTab = "ledger"
    /\ accounting.showForm
    /\ accounting.formData[field] # value
    /\ accounting' = [accounting EXCEPT !.formData[field] = value]
    /\ UNCHANGED <<authLoading, user, location, rendered, store, fetches, ledgerWrites,
                   invoiceWrites, console, sales, language, twin, exported, downloads, body>>

\* onClick={() => setShowForm(!showForm)}
AccountingToggleForm ==
    /\ AccountingReady
    /\ accounting' = [accounting EXCEPT !.showForm = ~accounting.showForm]
    /\ UNCHANGED <<authLoading, user, location, rendered, store, fetches, ledgerWrites,
                   invoiceWrites, console, sales, language, twin, exported, downloads, body>>

\* The document handed to addDoc, and with its id the entry added to the list:
\* { ...formData, tenantId: user.tenantId }
LedgerDocument(id, f, u) ==
    [id |-> id, date |-> f.date, account |-> f.account, description |-> f.description,
     debit |-> f.debit, credit |-> f.credit, tenantId |-> u.tenantId]

\* The browser hands the form to onSubmit only when its required inputs are
\* filled: date, account and description (the model types into date for the
\* three); debit and credit have min="0", which every amount typed meets.
FormValid(f) == f.date # ""

\* Accounting.handleSubmit refusing an entry whose debit and credit differ.
AccountingHandleSubmitBalanced ==
    /\ AccountingReady
    /\ accounting.activeTab = "ledger"
    /\ accounting.showForm
    /\ FormValid(accounting.formData)
    /\ user.present /\ user.tenantId # ""
    /\ accounting.formData.debit = accounting.formData.credit
    /\ InFlight < MaxInFlight
    /\ ledgerWrites' = Append(ledgerWrites,
            [user |-> user, formData |-> accounting.formData,
             ledgerEntries |-> accounting.ledgerEntries])
    /\ UNCHANGED <<authLoading, user, location, rendered, store, fetches,
                   invoiceWrites, console, accounting, sales, language, twin, exported, downloads, body>>

\* Accounting.handleSubmit up to its await: the check of user and the call of
\* addDoc.  The handler reads the form as it is; it validates nothing.
AccountingHandleSubmit ==
    /\ AccountingReady
    /\ accounting.activeTab = "ledger"
    /\ accounting.showForm
    /\ FormValid(accounting.formData)
    /\ user.present /\ user.tenantId # ""
    /\ InFlight < MaxInFlight
    /\ ledgerWrites' = Append(ledgerWrites,
            [user |-> user, formData |-> accounting.formData,
             ledgerEntries |-> accounting.ledgerEntries])
    /\ UNCHANGED <<authLoading, user, location, rendered, store, fetches,
                   invoiceWrites, console, accounting, sales, language, twin, exported, downloads, body>>

\* addDoc resolved: the rest of the try block, with the values the handler closed over.
AccountingSubmitResolved(i) ==
    /\ i \in DOMAIN ledgerWrites
    /\ LET c == ledgerWrites[i]
           newEntry == LedgerDocument(Len(store.ledgerEntries) + 1, c.formData, c.user)
       IN
        /\ store' = [store EXCEPT !.ledgerEntries = Append(@, newEntry)]
        /\ accounting' = [accounting EXCEPT !.ledgerEntries = Append(c.ledgerEntries, newEntry),
                                           !.formData = FormInit,
                                           !.showForm = FALSE]
    /\ ledgerWrites' = RemoveAt(ledgerWrites, i)
    /\ UNCHANGED <<authLoading, user, location, rendered, fetches, invoiceWrites,
                   console, sales, language, twin, exported, downloads, body>>

\* Accounting.handleSubmit resetting the form after a failed write as well.
AccountingSubmitRejectedResetting(i) ==
    /\ i \in DOMAIN ledgerWrites
    /\ ledgerWrites' = RemoveAt(ledgerWrites, i)
    /\ console' = Logged(console, "Error creating ledger entry:")
    /\ accounting' = [accounting EXCEPT !.formData = FormInit, !.showForm = FALSE]
    /\ UNCHANGED <<authLoading, user, location, rendered, store, fetches,
                   invoiceWrites, sales, language, twin, exported, downloads, body>>

\* addDoc rejected: the catch block.
AccountingSubmitRejected(i) ==
    /\ i \in DOMAIN ledgerWrites
    /\ ledgerWrites' = RemoveAt(ledgerWrites, i)
    /\ console' = Logged(console, "Error creating ledger entry:")
    /\ UNCHANGED <<authLoading, user, location, rendered, store, fetches,
                   invoiceWrites, accounting, sales, language, twin, exported, downloads, body>>

AccountingNext ==
    \/ AccountingEffect
    \/ \E i \in 1 .. MaxInFlight :
        \/ fetchLedgerEntriesResolved(i)
        \/ fetchLedgerEntriesRejected(i)
        \/ fetchJournalEntriesResolved(i)
        \/ fetchJournalEntriesRejected(i)
        \/ AccountingSubmitResolved(i)
        \/ AccountingSubmitRejected(i)
    \/ \E field \in FormFields :
        \E value \in FormValues(field) : setFormData(field, value)
    \/ AccountingToggleForm
    \/ LedgerWritten + Len(ledgerWrites) < MaxWrites /\ AccountingHandleSubmit

----------------------------------------------------------------------------
(* Accounting page: handleExportReportsExcel.  The handler reads t and, in *)
(* its last statement, dateRange; its arrays are written out below as the  *)
(* source writes them.  A number placed in a template literal is printed   *)
(* as JavaScript prints it (2.0 as 2), so the benchmark records hold the   *)
(* printed numbers.                                                        *)

\* t of useTranslation(): the text of a key in the current language.
t(lng, key) == lng \o ":" \o key

\* Trial Balance data with detailed accounts (lines 183-234)
trialBalanceData(lng) ==
    << (t(lng, "accounting.account") :> (t(lng, "accounting.assets"))
        @@ t(lng, "accounting.debit") :> ("")
        @@ t(lng, "accounting.credit") :> ("")),
       (t(lng, "accounting.account") :> ("  " \o t(lng, "accounting.cash"))
        @@ t(lng, "accounting.debit") :> ("10000.00")
        @@ t(lng, "accounting.credit") :> ("0.00")),
       (t(lng, "accounting.account") :> ("  " \o t(lng, "accounting.accountsReceivable"))
        @@ t(lng, "accounting.debit") :> ("5000.00")
        @@ t(lng, "accounting.credit") :> ("0.00")),
       (t(lng, "accounting.account") :> ("  " \o t(lng, "accounting.inventory"))
        @@ t(lng, "accounting.debit") :> ("8000.00")
        @@ t(lng, "accounting.credit") :> ("0.00")),
       (t(lng, "accounting.account") :> (t(lng, "accounting.liabilities"))
        @@ t(lng, "accounting.debit") :> ("")
        @@ t(lng, "accounting.credit") :> ("")),
       (t(lng, "accounting.account") :> ("  " \o t(lng, "accounting.accountsPayable"))
        @@ t(lng, "accounting.debit") :> ("0.00")
        @@ t(lng, "accounting.credit") :> ("3000.00")),
       (t(lng, "accounting.account") :> ("  " \o t(lng, "accounting.loans"))
        @@ t(lng, "accounting.debit") :> ("0.00")
        @@ t(lng, "accounting.credit") :> ("5000.00")),
       (t(lng, "accounting.account") :> (t(lng, "accounting.equity"))
        @@ t(lng, "accounting.debit") :> ("")
        @@ t(lng, "accounting.credit") :> ("")),
       (t(lng, "accounting.account") :> ("  " \o t(lng, "accounting.capital"))
        @@ t(lng, "accounting.debit") :> ("0.00")
        @@ t(lng, "accounting.credit") :> ("12000.00")),
       (t(lng, "accounting.account") :> ("  " \o t(lng, "accounting.retainedEarnings"))
        @@ t(lng, "accounting.debit") :> ("0.00")
        @@ t(lng, "accounting.credit") :> ("3000.00")) >>

\* Profit & Loss data with detailed categories (lines 237-266)
profitLossData(lng) ==
    << (t(lng, "accounting.description") :> (t(lng, "accounting.revenue"))
        @@ t(lng, "accounting.amount") :> ("")),
       (t(lng, "accounting.description") :> ("  " \o t(lng, "accounting.sales"))
        @@ t(lng, "accounting.amount") :> ("50000.00")),
       (t(lng, "accounting.description") :> ("  " \o t(lng, "accounting.otherIncome"))
        @@ t(lng, "accounting.amount") :> ("2000.00")),
       (t(lng, "accounting.description") :> (t(lng, "accounting.expenses"))
        @@ t(lng, "accounting.amount") :> ("")),
       (t(lng, "accounting.description") :> ("  " \o t(lng, "accounting.costOfGoodsSold"))
        @@ t(lng, "accounting.amount") :> ("25000.00")),
       (t(lng, "accounting.description") :> ("  " \o t(lng, "accounting.operatingExpenses"))
        @@ t(lng, "accounting.amount") :> ("5000.00")),
       (t(lng, "accounting.description") :> (t(lng, "accounting.profit"))
        @@ t(lng, "accounting.amount") :> ("20000.00")) >>

\* Balance Sheet data with detailed categories (lines 269-334)
balanceSheetData(lng) ==
    << (t(lng, "accounting.description") :> (t(lng, "accounting.assets"))
        @@ t(lng, "accounting.amount") :> ("")),
       (t(lng, "accounting.description") :> ("  " \o t(lng, "accounting.currentAssets"))
        @@ t(lng, "accounting.amount") :> ("")),
       (t(lng, "accounting.description") :> ("    " \o t(lng, "accounting.cash"))
        @@ t(lng, "accounting.amount") :> ("10000.00")),
       (t(lng, "accounting.description") :> ("    " \o t(lng, "accounting.accountsReceivable"))
        @@ t(lng, "accounting.amount") :> ("5000.00")),
       (t(lng, "accounting.description") :> ("    " \o t(lng, "accounting.inventory"))
        @@ t(lng, "accounting.amount") :> ("8000.00")),
       (t(lng, "accounting.description") :> ("  " \o t(lng, "accounting.fixedAssets"))
        @@ t(lng, "accounting.amount") :> ("")),
       (t(lng, "accounting.description") :> ("    " \o t(lng, "accounting.equipment"))
        @@ t(lng, "accounting.amount") :> ("10000.00")),
       (t(lng, "accounting.description") :> (t(lng, "accounting.liabilities"))
        @@ t(lng, "accounting.amount") :> ("")),
       (t(lng, "accounting.description") :> ("  " \o t(lng, "accounting.currentLiabilities"))
        @@ t(lng, "accounting.amount") :> ("")),
       (t(lng, "accounting.description") :> ("    " \o t(lng, "accounting.accountsPayable"))
        @@ t(lng, "accounting.amount") :> ("3000.00")),
       (t(lng, "accounting.description") :> ("    " \o t(lng, "accounting.shortTermLoans"))
        @@ t(lng, "accounting.amount") :> ("2000.00")),
       (t(lng, "accounting.description") :> ("  " \o t(lng, "accounting.longTermLiabilities"))
        @@ t(lng, "accounting.amount") :> ("")),
       (t(lng, "accounting.description") :> ("    " \o t(lng, "accounting.longTermLoans"))
        @@ t(lng, "accounting.amount") :> ("3000.00")),
       (t(lng, "accounting.description") :> (t(lng, "accounting.equity"))
        @@ t(lng, "accounting.amount") :> ("")),
       (t(lng, "accounting.description") :> ("  " \o t(lng, "accounting.capital"))
        @@ t(lng, "accounting.amount") :> ("12000.00")),
       (t(lng, "accounting.description") :> ("  " \o t(lng, "accounting.retainedEarnings"))
        @@ t(lng, "accounting.amount") :> ("3000.00")) >>

\* Cash Flow data with detailed categories (lines 337-378)
cashFlowData(lng) ==
    << (t(lng, "accounting.description") :> (t(lng, "accounting.operatingActivities"))
        @@ t(lng, "accounting.amount") :> ("")),
       (t(lng, "accounting.description") :> ("  " \o t(lng, "accounting.netIncome"))
        @@ t(lng, "accounting.amount") :> ("20000.00")),
       (t(lng, "accounting.description") :> ("  " \o t(lng, "accounting.depreciation"))
        @@ t(lng, "accounting.amount") :> ("1000.00")),
       (t(lng, "accounting.description") :> ("  " \o t(lng, "accounting.changesInWorkingCapital"))
        @@ t(lng, "accounting.amount") :> ("-6000.00")),
       (t(lng, "accounting.description") :> (t(lng, "accounting.investingActivities"))
        @@ t(lng, "accounting.amount") :> ("")),
       (t(lng, "accounting.description") :> ("  " \o t(lng, "accounting.purchaseOfEquipment"))
        @@ t(lng, "accounting.amount") :> ("-5000.00")),
       (t(lng, "accounting.description") :> (t(lng, "accounting.financingActivities"))
        @@ t(lng, "accounting.amount") :> ("")),
       (t(lng, "accounting.description") :> ("  " \o t(lng, "accounting.loanProceeds"))
        @@ t(lng, "accounting.amount") :> ("5000.00")),
       (t(lng, "accounting.description") :> ("  " \o t(lng, "accounting.loanRepayments"))
        @@ t(lng, "accounting.amount") :> ("-3000.00")),
       (t(lng, "accounting.description") :> (t(lng, "accounting.netCashFlow"))
        @@ t(lng, "accounting.amount") :> ("12000.00")) >>

\* Industry benchmarks (lines 381-400)
industryBenchmarks ==
    [retail |->
        [currentRatio |-> [excellent |-> "2", good |-> "1.5", fair |-> "1"],
         quickRatio |-> [excellent |-> "1", good |-> "0.8", fair |-> "0.5"],
         grossMargin |-> [excellent |-> "0.4", good |-> "0.3", fair |-> "0.2"],
         inventoryTurnover |-> [excellent |-> "8", good |-> "6", fair |-> "4"]],
     manufacturing |->
        [currentRatio |-> [excellent |-> "2.5", good |-> "2", fair |-> "1.5"],
         quickRatio |-> [excellent |-> "1.5", good |-> "1", fair |-> "0.7"],
         grossMargin |-> [excellent |-> "0.35", good |-> "0.25", fair |-> "0.15"],
         inventoryTurnover |-> [excellent |-> "6", good |-> "4", fair |-> "2"]],
     service |->
        [currentRatio |-> [excellent |-> "1.5", good |-> "1.2", fair |-> "1"],
         quickRatio |-> [excellent |-> "1.2", good |-> "1", fair |-> "0.8"],
         grossMargin |-> [excellent |-> "0.5", good |-> "0.4", fair |-> "0.3"],
         assetTurnover |-> [excellent |-> "2", good |-> "1.5", fair |-> "1"]]]

\* Industry Analysis Sheet (lines 403-464)
industryAnalysisData(lng) ==
    << (t(lng, "accounting.description") :> (t(lng, "accounting.industryAnalysis"))
        @@ t(lng, "accounting.amount") :> ("")
        @@ t(lng, "accounting.trend") :> ("")
        @@ t(lng, "accounting.analysis") :> ("")),
       (t(lng, "accounting.description") :> ("  " \o t(lng, "accounting.retailIndustry"))
        @@ t(lng, "accounting.amount") :> ("")
        @@ t(lng, "accounting.trend") :> ("")
        @@ t(lng, "accounting.analysis") :> ("")),
       (t(lng, "accounting.description") :> ("    " \o t(lng, "accounting.currentRatio"))
        @@ t(lng, "accounting.amount") :> ("=B2")
        @@ t(lng, "accounting.trend") :> ("=IF(B3>" \o industryBenchmarks.retail.currentRatio.excellent \o ",\"Excellent\",IF(B3>" \o industryBenchmarks.retail.currentRatio.good \o ",\"Good\",IF(B3>" \o industryBenchmarks.retail.currentRatio.fair \o ",\"Fair\",\"Poor\")))")
        @@ t(lng, "accounting.analysis") :> ("=IF(B3>" \o industryBenchmarks.retail.currentRatio.excellent \o ",\"Above industry average\",IF(B3>" \o industryBenchmarks.retail.currentRatio.good \o ",\"Industry average\",IF(B3>" \o industryBenchmarks.retail.currentRatio.fair \o ",\"Below industry average\",\"Significantly below industry average\")))")),
       (t(lng, "accounting.description") :> ("    " \o t(lng, "accounting.grossMargin"))
        @@ t(lng, "accounting.amount") :> ("=B6")
        @@ t(lng, "accounting.trend") :> ("=IF(B4>" \o industryBenchmarks.retail.grossMargin.excellent \o ",\"Excellent\",IF(B4>" \o industryBenchmarks.retail.grossMargin.good \o ",\"Good\",IF(B4>" \o industryBenchmarks.retail.grossMargin.fair \o ",\"Fair\",\"Poor\")))")
        @@ t(lng, "accounting.analysis") :> ("=IF(B4>" \o industryBenchmarks.retail.grossMargin.excellent \o ",\"Above industry average\",IF(B4>" \o industryBenchmarks.retail.grossMargin.good \o ",\"Industry average\",IF(B4>" \o industryBenchmarks.retail.grossMargin.fair \o ",\"Below industry average\",\"Significantly below industry average\")))")),
       (t(lng, "accounting.description") :> ("  " \o t(lng, "accounting.manufacturingIndustry"))
        @@ t(lng, "accounting.amount") :> ("")
        @@ t(lng, "accounting.trend") :> ("")
        @@ t(lng, "accounting.analysis") :> ("")),
       (t(lng, "accounting.description") :> ("    " \o t(lng, "accounting.currentRatio"))
        @@ t(lng, "accounting.amount") :> ("=B2")
        @@ t(lng, "accounting.trend") :> ("=IF(B6>" \o industryBenchmarks.manufacturing.currentRatio.excellent \o ",\"Excellent\",IF(B6>" \o industryBenchmarks.manufacturing.currentRatio.good \o ",\"Good\",IF(B6>" \o industryBenchmarks.manufacturing.currentRatio.fair \o ",\"Fair\",\"Poor\")))")
        @@ t(lng, "accounting.analysis") :> ("=IF(B6>" \o industryBenchmarks.manufacturing.currentRatio.excellent \o ",\"Above industry average\",IF(B6>" \o industryBenchmarks.manufacturing.currentRatio.good \o ",\"Industry average\",IF(B6>" \o industryBenchmarks.manufacturing.currentRatio.fair \o ",\"Below industry average\",\"Significantly below industry average\")))")),
       (t(lng, "accounting.description") :> ("    " \o t(lng, "accounting.grossMargin"))
        @@ t(lng, "accounting.amount") :> ("=B6")
        @@ t(lng, "accounting.trend") :> ("=IF(B7>" \o industryBenchmarks.manufacturing.grossMargin.excellent \o ",\"Excellent\",IF(B7>" \o industryBenchmarks.manufacturing.grossMargin.good \o ",\"Good\",IF(B7>" \o industryBenchmarks.manufacturing.grossMargin.fair \o ",\"Fair\",\"Poor\")))")
        @@ t(lng, "accounting.analysis") :> ("=IF(B7>" \o industryBenchmarks.manufacturing.grossMargin.excellent \o ",\"Above industry average\",IF(B7>" \o industryBenchmarks.manufacturing.grossMargin.good \o ",\"Industry average\",IF(B7>" \o industryBenchmarks.manufacturing.grossMargin.fair \o ",\"Below industry average\",\"Significantly below industry average\")))")),
       (t(lng, "accounting.description") :> ("  " \o t(lng, "accounting.serviceIndustry"))
        @@ t(lng, "accounting.amount") :> ("")
        @@ t(lng, "accounting.trend") :> ("")
        @@ t(lng, "accounting.analysis") :> ("")),
       (t(lng, "accounting.description") :> ("    " \o t(lng, "accounting.currentRatio"))
        @@ t(lng, "accounting.amount") :> ("=B2")
        @@ t(lng, "accounting.trend") :> ("=IF(B9>" \o industryBenchmarks.service.currentRatio.excellent \o ",\"Excellent\",IF(B9>" \o industryBenchmarks.service.currentRatio.good \o ",\"Good\",IF(B9>" \o industryBenchmarks.service.currentRatio.fair \o ",\"Fair\",\"Poor\")))")
        @@ t(lng, "accounting.analysis") :> ("=IF(B9>" \o industryBenchmarks.service.currentRatio.excellent \o ",\"Above industry average\",IF(B9>" \o industryBenchmarks.service.currentRatio.good \o ",\"Industry average\",IF(B9>" \o industryBenchmarks.service.currentRatio.fair \o ",\"Below industry average\",\"Significantly below industry average\")))")),
       (t(lng, "accounting.description") :> ("    " \o t(lng, "accounting.grossMargin"))
        @@ t(lng, "accounting.amount") :> ("=B6")
        @@ t(lng, "accounting.trend") :> ("=IF(B10>" \o industryBenchmarks.service.grossMargin.excellent \o ",\"Excellent\",IF(B10>" \o industryBenchmarks.service.grossMargin.good \o ",\"Good\",IF(B10>" \o industryBenchmarks.service.grossMargin.fair \o ",\"Fair\",\"Poor\")))")
        @@ t(lng, "accounting.analysis") :> ("=IF(B10>" \o industryBenchmarks.service.grossMargin.excellent \o ",\"Above industry average\",IF(B10>" \o industryBenchmarks.service.grossMargin.good \o ",\"Industry average\",IF(B10>" \o industryBenchmarks.service.grossMargin.fair \o ",\"Below industry average\",\"Significantly below industry average\")))")) >>

\* Financial Ratios data (lines 467-588)
financialRatiosData(lng) ==
    << (t(lng, "accounting.description") :> (t(lng, "accounting.liquidityRatios"))
        @@ t(lng, "accounting.amount") :> ("")
        @@ t(lng, "accounting.trend") :> ("")
        @@ t(lng, "accounting.analysis") :> ("")),
       (t(lng, "accounting.description") :> ("  " \o t(lng, "accounting.currentRatio"))
        @@ t(lng, "accounting.amount") :> ("=SUMIFS(INDIRECT(\"BalanceSheet!B:B\"),INDIRECT(\"BalanceSheet!A:A\"),\"*Current Assets*\")/SUMIFS(INDIRECT(\"BalanceSheet!B:B\"),INDIRECT(\"BalanceSheet!A:A\"),\"*Current Liabilities*\")")
        @@ t(lng, "accounting.trend") :> ("=IF(B2>1.5,\"Good\",IF(B2>1,\"Fair\",\"Poor\"))")
        @@ t(lng, "accounting.analysis") :> ("=IF(B2>1.5,\"Strong liquidity position\",IF(B2>1,\"Adequate liquidity\",\"Potential liquidity issues\"))")),
       (t(lng, "accounting.description") :> ("  " \o t(lng, "accounting.quickRatio"))
        @@ t(lng, "accounting.amount") :> ("=(SUMIFS(INDIRECT(\"BalanceSheet!B:B\"),INDIRECT(\"BalanceSheet!A:A\"),\"*Cash*\")+SUMIFS(INDIRECT(\"BalanceSheet!B:B\"),INDIRECT(\"BalanceSheet!A:A\"),\"*Accounts Receivable*\"))/SUMIFS(INDIRECT(\"BalanceSheet!B:B\"),INDIRECT(\"BalanceSheet!A:A\"),\"*Current Liabilities*\")")
        @@ t(lng, "accounting.trend") :> ("=IF(B3>1,\"Good\",IF(B3>0.5,\"Fair\",\"Poor\"))")
        @@ t(lng, "accounting.analysis") :> ("=IF(B3>1,\"Strong immediate liquidity\",IF(B3>0.5,\"Adequate immediate liquidity\",\"Potential immediate liquidity issues\"))")),
       (t(lng, "accounting.description") :> ("  " \o t(lng, "accounting.cashRatio"))
        @@ t(lng, "accounting.amount") :> ("=SUMIFS(INDIRECT(\"BalanceSheet!B:B\"),INDIRECT(\"BalanceSheet!A:A\"),\"*Cash*\")/SUMIFS(INDIRECT(\"BalanceSheet!B:B\"),INDIRECT(\"BalanceSheet!A:A\"),\"*Current Liabilities*\")")
        @@ t(lng, "accounting.trend") :> ("=IF(B4>0.5,\"Good\",IF(B4>0.2,\"Fair\",\"Poor\"))")
        @@ t(lng, "accounting.analysis") :> ("=IF(B4>0.5,\"Strong cash position\",IF(B4>0.2,\"Adequate cash reserves\",\"Low cash reserves - potential risk\"))")),
       (t(lng, "accounting.description") :> (t(lng, "accounting.profitabilityRatios"))
        @@ t(lng, "accounting.amount") :> ("")
        @@ t(lng, "accounting.trend") :> ("")
        @@ t(lng, "accounting.analysis") :> ("")),
       (t(lng, "accounting.description") :> ("  " \o t(lng, "accounting.grossProfitMargin"))
        @@ t(lng, "accounting.amount") :> ("=(SUMIFS(INDIRECT(\"ProfitAndLoss!B:B\"),INDIRECT(\"ProfitAndLoss!A:A\"),\"*Sales*\")-SUMIFS(INDIRECT(\"ProfitAndLoss!B:B\"),INDIRECT(\"ProfitAndLoss!A:A\"),\"*Cost of Goods Sold*\"))/SUMIFS(INDIRECT(\"ProfitAndLoss!B:B\"),INDIRECT(\"ProfitAndLoss!A:A\"),\"*Sales*\")")
        @@ t(lng, "accounting.trend") :> ("=IF(B6>0.3,\"Excellent\",IF(B6>0.2,\"Good\",IF(B6>0.1,\"Fair\",\"Poor\")))")
        @@ t(lng, "accounting.analysis") :> ("=IF(B6>0.3,\"Strong pricing power and cost control\",IF(B6>0.2,\"Good profitability\",IF(B6>0.1,\"Marginal profitability\",\"Low profitability\")))")),
       (t(lng, "accounting.description") :> ("  " \o t(lng, "accounting.operatingMargin"))
        @@ t(lng, "accounting.amount") :> ("=SUMIFS(INDIRECT(\"ProfitAndLoss!B:B\"),INDIRECT(\"ProfitAndLoss!A:A\"),\"*Operating Income*\")/SUMIFS(INDIRECT(\"ProfitAndLoss!B:B\"),INDIRECT(\"ProfitAndLoss!A:A\"),\"*Sales*\")")
        @@ t(lng, "accounting.trend") :> ("=IF(B7>0.2,\"Excellent\",IF(B7>0.1,\"Good\",IF(B7>0.05,\"Fair\",\"Poor\")))")
        @@ t(lng, "accounting.analysis") :> ("=IF(B7>0.2,\"Exceptional operational efficiency\",IF(B7>0.1,\"Good operational performance\",IF(B7>0.05,\"Adequate operations\",\"Inefficient operations\")))")),
       (t(lng, "accounting.description") :> ("  " \o t(lng, "accounting.netProfitMargin"))
        @@ t(lng, "accounting.amount") :> ("=SUMIFS(INDIRECT(\"ProfitAndLoss!B:B\"),INDIRECT(\"ProfitAndLoss!A:A\"),\"*Net Income*\")/SUMIFS(INDIRECT(\"ProfitAndLoss!B:B\"),INDIRECT(\"ProfitAndLoss!A:A\"),\"*Sales*\")")
        @@ t(lng, "accounting.trend") :> ("=IF(B8>0.15,\"Excellent\",IF(B8>0.1,\"Good\",IF(B8>0.05,\"Fair\",\"Poor\")))")
        @@ t(lng, "accounting.analysis") :> ("=IF(B8>0.15,\"Exceptional overall profitability\",IF(B8>0.1,\"Strong overall profitability\",IF(B8>0.05,\"Adequate profitability\",\"Low overall profitability\")))")),
       (t(lng, "accounting.description") :> (t(lng, "accounting.efficiencyRatios"))
        @@ t(lng, "accounting.amount") :> ("")
        @@ t(lng, "accounting.trend") :> ("")
        @@ t(lng, "accounting.analysis") :> ("")),
       (t(lng, "accounting.description") :> ("  " \o t(lng, "accounting.assetTurnover"))
        @@ t(lng, "accounting.amount") :> ("=SUMIFS(INDIRECT(\"ProfitAndLoss!B:B\"),INDIRECT(\"ProfitAndLoss!A:A\"),\"*Sales*\")/SUMIFS(INDIRECT(\"BalanceSheet!B:B\"),INDIRECT(\"BalanceSheet!A:A\"),\"*Total Assets*\")")
        @@ t(lng, "accounting.trend") :> ("=IF(B10>1.5,\"Excellent\",IF(B10>1,\"Good\",IF(B10>0.5,\"Fair\",\"Poor\")))")
        @@ t(lng, "accounting.analysis") :> ("=IF(B10>1.5,\"Highly efficient asset utilization\",IF(B10>1,\"Good asset utilization\",IF(B10>0.5,\"Adequate asset utilization\",\"Inefficient asset utilization\")))")),
       (t(lng, "accounting.description") :> ("  " \o t(lng, "accounting.inventoryTurnover"))
        @@ t(lng, "accounting.amount") :> ("=SUMIFS(INDIRECT(\"ProfitAndLoss!B:B\"),INDIRECT(\"ProfitAndLoss!A:A\"),\"*Cost of Goods Sold*\")/SUMIFS(INDIRECT(\"BalanceSheet!B:B\"),INDIRECT(\"BalanceSheet!A:A\"),\"*Inventory*\")")
        @@ t(lng, "accounting.trend") :> ("=IF(B11>6,\"Excellent\",IF(B11>4,\"Good\",IF(B11>2,\"Fair\",\"Poor\")))")
        @@ t(lng, "accounting.analysis") :> ("=IF(B11>6,\"Highly efficient inventory management\",IF(B11>4,\"Good inventory turnover\",IF(B11>2,\"Adequate inventory turnover\",\"Slow inventory turnover\")))")),
       (t(lng, "accounting.description") :> ("  " \o t(lng, "accounting.receivablesTurnover"))
        @@ t(lng, "accounting.amount") :> ("=SUMIFS(INDIRECT(\"ProfitAndLoss!B:B\"),INDIRECT(\"ProfitAndLoss!A:A\"),\"*Sales*\")/SUMIFS(INDIRECT(\"BalanceSheet!B:B\"),INDIRECT(\"BalanceSheet!A:A\"),\"*Accounts Receivable*\")")
        @@ t(lng, "accounting.trend") :> ("=IF(B12>12,\"Excellent\",IF(B12>8,\"Good\",IF(B12>4,\"Fair\",\"Poor\")))")
        @@ t(lng, "accounting.analysis") :> ("=IF(B12>12,\"Excellent receivables collection\",IF(B12>8,\"Good receivables management\",IF(B12>4,\"Adequate receivables turnover\",\"Slow receivables collection\")))")),
       (t(lng, "accounting.description") :> ("  " \o t(lng, "accounting.payablesTurnover"))
        @@ t(lng, "accounting.amount") :> ("=SUMIFS(INDIRECT(\"ProfitAndLoss!B:B\"),INDIRECT(\"ProfitAndLoss!A:A\"),\"*Cost of Goods Sold*\")/SUMIFS(INDIRECT(\"BalanceSheet!B:B\"),INDIRECT(\"BalanceSheet!A:A\"),\"*Accounts Payable*\")")
        @@ t(lng, "accounting.trend") :> ("=IF(B13>12,\"Excellent\",IF(B13>8,\"Good\",IF(B13>4,\"Fair\",\"Poor\")))")
        @@ t(lng, "accounting.analysis") :> ("=IF(B13>12,\"Efficient payables management\",IF(B13>8,\"Good payables turnover\",IF(B13>4,\"Adequate payables turnover\",\"Slow payables turnover\")))")),
       (t(lng, "accounting.description") :> (t(lng, "accounting.solvencyRatios"))
        @@ t(lng, "accounting.amount") :> ("")
        @@ t(lng, "accounting.trend") :> ("")
        @@ t(lng, "accounting.analysis") :> ("")),
       (t(lng, "accounting.description") :> ("  " \o t(lng, "accounting.debtToEquity"))
        @@ t(lng, "accounting.amount") :> ("=SUMIFS(INDIRECT(\"BalanceSheet!B:B\"),INDIRECT(\"BalanceSheet!A:A\"),\"*Liabilities*\")/SUMIFS(INDIRECT(\"BalanceSheet!B:B\"),INDIRECT(\"BalanceSheet!A:A\"),\"*Equity*\")")
        @@ t(lng, "accounting.trend") :> ("=IF(B15<1,\"Good\",IF(B15<2,\"Fair\",\"Poor\"))")
        @@ t(lng, "accounting.analysis") :> ("=IF(B15<1,\"Conservative capital structure\",IF(B15<2,\"Moderate leverage\",\"High leverage - potential risk\"))")),
       (t(lng, "accounting.description") :> ("  " \o t(lng, "accounting.debtRatio"))
        @@ t(lng, "accounting.amount") :> ("=SUMIFS(INDIRECT(\"BalanceSheet!B:B\"),INDIRECT(\"BalanceSheet!A:A\"),\"*Liabilities*\")/SUMIFS(INDIRECT(\"BalanceSheet!B:B\"),INDIRECT(\"BalanceSheet!A:A\"),\"*Assets*\")")
        @@ t(lng, "accounting.trend") :> ("=IF(B16<0.5,\"Good\",IF(B16<0.7,\"Fair\",\"Poor\"))")
        @@ t(lng, "accounting.analysis") :> ("=IF(B16<0.5,\"Strong financial position\",IF(B16<0.7,\"Moderate financial position\",\"High financial risk\"))")),
       (t(lng, "accounting.description") :> ("  " \o t(lng, "accounting.interestCoverage"))
        @@ t(lng, "accounting.amount") :> ("=SUMIFS(INDIRECT(\"ProfitAndLoss!B:B\"),INDIRECT(\"ProfitAndLoss!A:A\"),\"*Operating Income*\")/SUMIFS(INDIRECT(\"ProfitAndLoss!B:B\"),INDIRECT(\"ProfitAndLoss!A:A\"),\"*Interest Expense*\")")
        @@ t(lng, "accounting.trend") :> ("=IF(B17>3,\"Good\",IF(B17>1.5,\"Fair\",\"Poor\"))")
        @@ t(lng, "accounting.analysis") :> ("=IF(B17>3,\"Strong ability to service debt\",IF(B17>1.5,\"Adequate debt service capacity\",\"Potential debt service issues\"))")),
       (t(lng, "accounting.description") :> (t(lng, "accounting.marketRatios"))
        @@ t(lng, "accounting.amount") :> ("")
        @@ t(lng, "accounting.trend") :> ("")
        @@ t(lng, "accounting.analysis") :> ("")),
       (t(lng, "accounting.description") :> ("  " \o t(lng, "accounting.earningsPerShare"))
        @@ t(lng, "accounting.amount") :> ("=SUMIFS(INDIRECT(\"ProfitAndLoss!B:B\"),INDIRECT(\"ProfitAndLoss!A:A\"),\"*Net Income*\")/SUMIFS(INDIRECT(\"BalanceSheet!B:B\"),INDIRECT(\"BalanceSheet!A:A\"),\"*Shares Outstanding*\")")
        @@ t(lng, "accounting.trend") :> ("=IF(B19>0,\"Positive\",\"Negative\")")
        @@ t(lng, "accounting.analysis") :> ("=IF(B19>0,\"Profitable per share\",\"Loss per share\")")),
       (t(lng, "accounting.description") :> ("  " \o t(lng, "accounting.priceToEarnings"))
        @@ t(lng, "accounting.amount") :> ("=SUMIFS(INDIRECT(\"MarketData!B:B\"),INDIRECT(\"MarketData!A:A\"),\"*Stock Price*\")/B19")
        @@ t(lng, "accounting.trend") :> ("=IF(B20<15,\"Undervalued\",IF(B20<25,\"Fairly valued\",\"Overvalued\"))")
        @@ t(lng, "accounting.analysis") :> ("=IF(B20<15,\"Potential investment opportunity\",IF(B20<25,\"Market aligned\",\"Potential overvaluation\"))")) >>

\* Industry cash flow benchmarks (lines 591-616)
industryCashFlowBenchmarks ==
    [retail |->
        [operatingCashFlowMargin |-> [excellent |-> "0.15", good |-> "0.1", fair |-> "0.05"],
         cashConversionCycle |-> [excellent |-> "30", good |-> "45", fair |-> "60"],
         workingCapitalRatio |-> [excellent |-> "2", good |-> "1.5", fair |-> "1"],
         dso |-> [excellent |-> "30", good |-> "45", fair |-> "60"],
         dio |-> [excellent |-> "30", good |-> "45", fair |-> "60"],
         dpo |-> [excellent |-> "45", good |-> "30", fair |-> "15"]],
     manufacturing |->
        [operatingCashFlowMargin |-> [excellent |-> "0.2", good |-> "0.15", fair |-> "0.1"],
         cashConversionCycle |-> [excellent |-> "45", good |-> "60", fair |-> "75"],
         workingCapitalRatio |-> [excellent |-> "2.5", good |-> "2", fair |-> "1.5"],
         dso |-> [excellent |-> "45", good |-> "60", fair |-> "75"],
         dio |-> [excellent |-> "45", good |-> "60", fair |-> "75"],
         dpo |-> [excellent |-> "60", good |-> "45", fair |-> "30"]],
     service |->
        [operatingCashFlowMargin |-> [excellent |-> "0.25", good |-> "0.2", fair |-> "0.15"],
         cashConversionCycle |-> [excellent |-> "15", good |-> "30", fair |-> "45"],
         workingCapitalRatio |-> [excellent |-> "1.5", good |-> "1.2", fair |-> "1"],
         dso |-> [excellent |-> "15", good |-> "30", fair |-> "45"],
         dio |-> [excellent |-> "0", good |-> "0", fair |-> "0"],
         dpo |-> [excellent |-> "30", good |-> "15", fair |-> "0"]]]

\* Market metrics data (lines 619-818)
\* The rows evaluated before line 797 reads industryMetrics, a name that no
\* scope declares: that read throws a ReferenceError and ends the handler.
marketMetricsData(lng) ==
    << (t(lng, "accounting.description") :> (t(lng, "accounting.marketPerformance"))
        @@ t(lng, "accounting.amount") :> ("")
        @@ t(lng, "accounting.trend") :> ("")
        @@ t(lng, "accounting.analysis") :> ("")),
       (t(lng, "accounting.description") :> ("  " \o t(lng, "accounting.marketCapitalization"))
        @@ t(lng, "accounting.amount") :> ("=SUMIFS(INDIRECT(\"MarketData!B:B\"),INDIRECT(\"MarketData!A:A\"),\"*Stock Price*\")*SUMIFS(INDIRECT(\"BalanceSheet!B:B\"),INDIRECT(\"BalanceSheet!A:A\"),\"*Shares Outstanding*\")")
        @@ t(lng, "accounting.trend") :> ("=IF(B2>1000000000,\"Large Cap\",IF(B2>500000000,\"Mid Cap\",\"Small Cap\"))")
        @@ t(lng, "accounting.analysis") :> ("=IF(B2>1000000000,\"Large market presence\",IF(B2>500000000,\"Moderate market presence\",\"Small market presence\"))")),
       (t(lng, "accounting.description") :> ("  " \o t(lng, "accounting.enterpriseValue"))
        @@ t(lng, "accounting.amount") :> ("=B2+SUMIFS(INDIRECT(\"BalanceSheet!B:B\"),INDIRECT(\"BalanceSheet!A:A\"),\"*Debt*\")-SUMIFS(INDIRECT(\"BalanceSheet!B:B\"),INDIRECT(\"BalanceSheet!A:A\"),\"*Cash*\")")
        @@ t(lng, "accounting.trend") :> ("=IF(B3/B2<1.5,\"Conservative\",IF(B3/B2<2,\"Moderate\",\"Aggressive\"))")
        @@ t(lng, "accounting.analysis") :> ("=IF(B3/B2<1.5,\"Conservative capital structure\",IF(B3/B2<2,\"Moderate leverage\",\"High leverage - potential risk\"))")),
       (t(lng, "accounting.description") :> ("  " \o t(lng, "accounting.priceToBook"))
        @@ t(lng, "accounting.amount") :> ("=SUMIFS(INDIRECT(\"MarketData!B:B\"),INDIRECT(\"MarketData!A:A\"),\"*Stock Price*\")/(SUMIFS(INDIRECT(\"BalanceSheet!B:B\"),INDIRECT(\"BalanceSheet!A:A\"),\"*Equity*\")/SUMIFS(INDIRECT(\"BalanceSheet!B:B\"),INDIRECT(\"BalanceSheet!A:A\"),\"*Shares Outstanding*\"))")
        @@ t(lng, "accounting.trend") :> ("=IF(B4<1,\"Undervalued\",IF(B4<2,\"Fairly valued\",\"Overvalued\"))")
        @@ t(lng, "accounting.analysis") :> ("=IF(B4<1,\"Potential value investment\",IF(B4<2,\"Market aligned\",\"Potential overvaluation\"))")),
       (t(lng, "accounting.description") :> ("  " \o t(lng, "accounting.priceToSales"))
        @@ t(lng, "accounting.amount") :> ("=B2/SUMIFS(INDIRECT(\"ProfitAndLoss!B:B\"),INDIRECT(\"ProfitAndLoss!A:A\"),\"*Sales*\")")
        @@ t(lng, "accounting.trend") :> ("=IF(B5<1,\"Undervalued\",IF(B5<3,\"Fairly valued\",\"Overvalued\"))")
        @@ t(lng, "accounting.analysis") :> ("=IF(B5<1,\"Potential value opportunity\",IF(B5<3,\"Market aligned\",\"Potential overvaluation\"))")),
       (t(lng, "accounting.description") :> ("  " \o t(lng, "accounting.dividendYield"))
        @@ t(lng, "accounting.amount") :> ("=SUMIFS(INDIRECT(\"ProfitAndLoss!B:B\"),INDIRECT(\"ProfitAndLoss!A:A\"),\"*Dividends*\")/SUMIFS(INDIRECT(\"MarketData!B:B\"),INDIRECT(\"MarketData!A:A\"),\"*Stock Price*\")")
        @@ t(lng, "accounting.trend") :> ("=IF(B6>0.05,\"High\",IF(B6>0.02,\"Moderate\",\"Low\"))")
        @@ t(lng, "accounting.analysis") :> ("=IF(B6>0.05,\"Attractive for income investors\",IF(B6>0.02,\"Moderate income potential\",\"Low income potential\"))")),
       (t(lng, "accounting.description") :> ("  " \o t(lng, "accounting.pegRatio"))
        @@ t(lng, "accounting.amount") :> ("=B4/(SUMIFS(INDIRECT(\"ProfitAndLoss!B:B\"),INDIRECT(\"ProfitAndLoss!A:A\"),\"*Net Income Growth*\")*100)")
        @@ t(lng, "accounting.trend") :> ("=IF(B7<1,\"Undervalued\",IF(B7<2,\"Fairly valued\",\"Overvalued\"))")
        @@ t(lng, "accounting.analysis") :> ("=IF(B7<1,\"Growth at reasonable price\",IF(B7<2,\"Market aligned\",\"Potential overvaluation\"))")),
       (t(lng, "accounting.description") :> ("  " \o t(lng, "accounting.beta"))
        @@ t(lng, "accounting.amount") :> ("=SUMIFS(INDIRECT(\"MarketData!B:B\"),INDIRECT(\"MarketData!A:A\"),\"*Beta*\")")
        @@ t(lng, "accounting.trend") :> ("=IF(B8<0.8,\"Defensive\",IF(B8<1.2,\"Market\",IF(B8<1.5,\"Aggressive\",\"Highly Volatile\")))")
        @@ t(lng, "accounting.analysis") :> ("=IF(B8<0.8,\"Lower market risk\",IF(B8<1.2,\"Market risk\",IF(B8<1.5,\"Higher market risk\",\"Very high market risk\")))")),
       (t(lng, "accounting.description") :> ("  " \o t(lng, "accounting.returnOnEquity"))
        @@ t(lng, "accounting.amount") :> ("=SUMIFS(INDIRECT(\"ProfitAndLoss!B:B\"),INDIRECT(\"ProfitAndLoss!A:A\"),\"*Net Income*\")/SUMIFS(INDIRECT(\"BalanceSheet!B:B\"),INDIRECT(\"BalanceSheet!A:A\"),\"*Equity*\")")
        @@ t(lng, "accounting.trend") :> ("=IF(B9>0.15,\"Excellent\",IF(B9>0.1,\"Good\",IF(B9>0.05,\"Fair\",\"Poor\")))")
        @@ t(lng, "accounting.analysis") :> ("=IF(B9>0.15,\"Exceptional return to shareholders\",IF(B9>0.1,\"Good return to shareholders\",IF(B9>0.05,\"Adequate return\",\"Poor return\")))")),
       (t(lng, "accounting.description") :> ("  " \o t(lng, "accounting.returnOnAssets"))
        @@ t(lng, "accounting.amount") :> ("=SUMIFS(INDIRECT(\"ProfitAndLoss!B:B\"),INDIRECT(\"ProfitAndLoss!A:A\"),\"*Net Income*\")/SUMIFS(INDIRECT(\"BalanceSheet!B:B\"),INDIRECT(\"BalanceSheet!A:A\"),\"*Total Assets*\")")
        @@ t(lng, "accounting.trend") :> ("=IF(B10>0.1,\"Excellent\",IF(B10>0.05,\"Good\",IF(B10>0,\"Fair\",\"Poor\")))")
        @@ t(lng, "accounting.analysis") :> ("=IF(B10>0.1,\"Highly efficient asset utilization\",IF(B10>0.05,\"Good asset utilization\",IF(B10>0,\"Adequate utilization\",\"Inefficient utilization\")))")),
       (t(lng, "accounting.description") :> ("  " \o t(lng, "accounting.freeCashFlow"))
        @@ t(lng, "accounting.amount") :> ("=SUMIFS(INDIRECT(\"CashFlow!B:B\"),INDIRECT(\"CashFlow!A:A\"),\"*Operating Cash Flow*\")-SUMIFS(INDIRECT(\"CashFlow!B:B\"),INDIRECT(\"CashFlow!A:A\"),\"*Capital Expenditures*\")")
        @@ t(lng, "accounting.trend") :> ("=IF(B11>0,\"Positive\",IF(B11=0,\"Neutral\",\"Negative\"))")
        @@ t(lng, "accounting.analysis") :> ("=IF(B11>0,\"Generating positive free cash flow\",IF(B11=0,\"Breaking even\",\"Negative cash flow - potential concern\"))")),
       (t(lng, "accounting.description") :> ("  " \o t(lng, "accounting.freeCashFlowYield"))
        @@ t(lng, "accounting.amount") :> ("=B11/B2")
        @@ t(lng, "accounting.trend") :> ("=IF(B12>0.05,\"High\",IF(B12>0.02,\"Moderate\",\"Low\"))")
        @@ t(lng, "accounting.analysis") :> ("=IF(B12>0.05,\"Attractive cash flow yield\",IF(B12>0.02,\"Moderate cash flow yield\",\"Low cash flow yield\"))")),
       (t(lng, "accounting.description") :> ("  " \o t(lng, "accounting.freeCashFlowToEquity"))
        @@ t(lng, "accounting.amount") :> ("=B11/SUMIFS(INDIRECT(\"BalanceSheet!B:B\"),INDIRECT(\"BalanceSheet!A:A\"),\"*Equity*\")")
        @@ t(lng, "accounting.trend") :> ("=IF(B13>0.1,\"Excellent\",IF(B13>0.05,\"Good\",IF(B13>0,\"Fair\",\"Poor\")))")
        @@ t(lng, "accounting.analysis") :> ("=IF(B13>0.1,\"Strong cash flow to equity\",IF(B13>0.05,\"Good cash flow generation\",IF(B13>0,\"Adequate cash flow\",\"Poor cash flow generation\")))")),
       (t(lng, "accounting.description") :> ("  " \o t(lng, "accounting.ebitda"))
        @@ t(lng, "accounting.amount") :> ("=SUMIFS(INDIRECT(\"ProfitAndLoss!B:B\"),INDIRECT(\"ProfitAndLoss!A:A\"),\"*Operating Income*\")+SUMIFS(INDIRECT(\"ProfitAndLoss!B:B\"),INDIRECT(\"ProfitAndLoss!A:A\"),\"*Depreciation*\")+SUMIFS(INDIRECT(\"ProfitAndLoss!B:B\"),INDIRECT(\"ProfitAndLoss!A:A\"),\"*Amortization*\")")
        @@ t(lng, "accounting.trend") :> ("=IF(B14>0,\"Positive\",IF(B14=0,\"Neutral\",\"Negative\"))")
        @@ t(lng, "accounting.analysis") :> ("=IF(B14>0,\"Strong operating performance\",IF(B14=0,\"Breaking even\",\"Negative operating performance\"))")),
       (t(lng, "accounting.description") :> ("  " \o t(lng, "accounting.evToEbitda"))
        @@ t(lng, "accounting.amount") :> ("=B3/B14")
        @@ t(lng, "accounting.trend") :> ("=IF(B15<10,\"Undervalued\",IF(B15<15,\"Fairly valued\",\"Overvalued\"))")
        @@ t(lng, "accounting.analysis") :> ("=IF(B15<10,\"Potential value opportunity\",IF(B15<15,\"Market aligned\",\"Potential overvaluation\"))")),
       (t(lng, "accounting.description") :> ("  " \o t(lng, "accounting.ebitdaMargin"))
        @@ t(lng, "accounting.amount") :> ("=B14/SUMIFS(INDIRECT(\"ProfitAndLoss!B:B\"),INDIRECT(\"ProfitAndLoss!A:A\"),\"*Sales*\")")
        @@ t(lng, "accounting.trend") :> ("=IF(B16>0.2,\"Excellent\",IF(B16>0.1,\"Good\",IF(B16>0.05,\"Fair\",\"Poor\")))")
        @@ t(lng, "accounting.analysis") :> ("=IF(B16>0.2,\"Exceptional operating efficiency\",IF(B16>0.1,\"Good operating performance\",IF(B16>0.05,\"Adequate performance\",\"Poor operating efficiency\")))")),
       (t(lng, "accounting.description") :> ("  " \o t(lng, "accounting.operatingCashFlow"))
        @@ t(lng, "accounting.amount") :> ("=SUMIFS(INDIRECT(\"CashFlow!B:B\"),INDIRECT(\"CashFlow!A:A\"),\"*Operating Cash Flow*\")")
        @@ t(lng, "accounting.trend") :> ("=IF(B17>0,\"Positive\",IF(B17=0,\"Neutral\",\"Negative\"))")
        @@ t(lng, "accounting.analysis") :> ("=IF(B17>0,\"Strong operating cash generation\",IF(B17=0,\"Breaking even\",\"Negative operating cash flow - potential concern\"))")),
       (t(lng, "accounting.description") :> ("  " \o t(lng, "accounting.capitalExpenditures"))
        @@ t(lng, "accounting.amount") :> ("=SUMIFS(INDIRECT(\"CashFlow!B:B\"),INDIRECT(\"CashFlow!A:A\"),\"*Capital Expenditures*\")")
        @@ t(lng, "accounting.trend") :> ("=IF(B18<0,\"Investment\",IF(B18=0,\"Maintenance\",\"Disinvestment\"))")
        @@ t(lng, "accounting.analysis") :> ("=IF(B18<0,\"Growth investment\",IF(B18=0,\"Maintenance only\",\"Asset disposal\"))")),
       (t(lng, "accounting.description") :> ("  " \o t(lng, "accounting.workingCapital"))
        @@ t(lng, "accounting.amount") :> ("=SUMIFS(INDIRECT(\"BalanceSheet!B:B\"),INDIRECT(\"BalanceSheet!A:A\"),\"*Current Assets*\")-SUMIFS(INDIRECT(\"BalanceSheet!B:B\"),INDIRECT(\"BalanceSheet!A:A\"),\"*Current Liabilities*\")")
        @@ t(lng, "accounting.trend") :> ("=IF(B19>0,\"Positive\",IF(B19=0,\"Neutral\",\"Negative\"))")
        @@ t(lng, "accounting.analysis") :> ("=IF(B19>0,\"Adequate working capital\",IF(B19=0,\"Minimal working capital\",\"Insufficient working capital\"))")),
       (t(lng, "accounting.description") :> ("  " \o t(lng, "accounting.workingCapitalRatio"))
        @@ t(lng, "accounting.amount") :> ("=SUMIFS(INDIRECT(\"BalanceSheet!B:B\"),INDIRECT(\"BalanceSheet!A:A\"),\"*Current Assets*\")/SUMIFS(INDIRECT(\"BalanceSheet!B:B\"),INDIRECT(\"BalanceSheet!A:A\"),\"*Current Liabilities*\")")
        @@ t(lng, "accounting.trend") :> ("=IF(B20>2,\"Excellent\",IF(B20>1.5,\"Good\",IF(B20>1,\"Fair\",\"Poor\")))")
        @@ t(lng, "accounting.analysis") :> ("=IF(B20>2,\"Strong liquidity position\",IF(B20>1.5,\"Good liquidity\",IF(B20>1,\"Adequate liquidity\",\"Potential liquidity issues\")))")),
       (t(lng, "accounting.description") :> ("  " \o t(lng, "accounting.cashConversionCycle"))
        @@ t(lng, "accounting.amount") :> ("=SUMIFS(INDIRECT(\"BalanceSheet!B:B\"),INDIRECT(\"BalanceSheet!A:A\"),\"*Inventory*\")/SUMIFS(INDIRECT(\"ProfitAndLoss!B:B\"),INDIRECT(\"ProfitAndLoss!A:A\"),\"*Cost of Goods Sold*\")*365+SUMIFS(INDIRECT(\"BalanceSheet!B:B\"),INDIRECT(\"BalanceSheet!A:A\"),\"*Accounts Receivable*\")/SUMIFS(INDIRECT(\"ProfitAndLoss!B:B\"),INDIRECT(\"ProfitAndLoss!A:A\"),\"*Sales*\")*365-SUMIFS(INDIRECT(\"BalanceSheet!B:B\"),INDIRECT(\"BalanceSheet!A:A\"),\"*Accounts Payable*\")/SUMIFS(INDIRECT(\"ProfitAndLoss!B:B\"),INDIRECT(\"ProfitAndLoss!A:A\"),\"*Cost of Goods Sold*\")*365")
        @@ t(lng, "accounting.trend") :> ("=IF(B21<30,\"Excellent\",IF(B21<60,\"Good\",IF(B21<90,\"Fair\",\"Poor\")))")
        @@ t(lng, "accounting.analysis") :> ("=IF(B21<30,\"Efficient cash conversion\",IF(B21<60,\"Good cash management\",IF(B21<90,\"Adequate cash cycle\",\"Inefficient cash conversion\")))")),
       (t(lng, "accounting.description") :> ("  " \o t(lng, "accounting.daysSalesOutstanding"))
        @@ t(lng, "accounting.amount") :> ("=SUMIFS(INDIRECT(\"BalanceSheet!B:B\"),INDIRECT(\"BalanceSheet!A:A\"),\"*Accounts Receivable*\")/SUMIFS(INDIRECT(\"ProfitAndLoss!B:B\"),INDIRECT(\"ProfitAndLoss!A:A\"),\"*Sales*\")*365")
        @@ t(lng, "accounting.trend") :> ("=IF(B22<30,\"Excellent\",IF(B22<45,\"Good\",IF(B22<60,\"Fair\",\"Poor\")))")
        @@ t(lng, "accounting.analysis") :> ("=IF(B22<30,\"Efficient receivables collection\",IF(B22<45,\"Good receivables management\",IF(B22<60,\"Adequate collection period\",\"Slow receivables collection\")))")),
       (t(lng, "accounting.description") :> ("  " \o t(lng, "accounting.daysInventoryOutstanding"))
        @@ t(lng, "accounting.amount") :> ("=SUMIFS(INDIRECT(\"BalanceSheet!B:B\"),INDIRECT(\"BalanceSheet!A:A\"),\"*Inventory*\")/SUMIFS(INDIRECT(\"ProfitAndLoss!B:B\"),INDIRECT(\"ProfitAndLoss!A:A\"),\"*Cost of Goods Sold*\")*365")
        @@ t(lng, "accounting.trend") :> ("=IF(B23<30,\"Excellent\",IF(B23<45,\"Good\",IF(B23<60,\"Fair\",\"Poor\")))")
        @@ t(lng, "accounting.analysis") :> ("=IF(B23<30,\"Efficient inventory management\",IF(B23<45,\"Good inventory turnover\",IF(B23<60,\"Adequate inventory period\",\"Slow inventory turnover\")))")),
       (t(lng, "accounting.description") :> ("  " \o t(lng, "accounting.daysPayableOutstanding"))
        @@ t(lng, "accounting.amount") :> ("=SUMIFS(INDIRECT(\"BalanceSheet!B:B\"),INDIRECT(\"BalanceSheet!A:A\"),\"*Accounts Payable*\")/SUMIFS(INDIRECT(\"ProfitAndLoss!B:B\"),INDIRECT(\"ProfitAndLoss!A:A\"),\"*Cost of Goods Sold*\")*365")
        @@ t(lng, "accounting.trend") :> ("=IF(B24>45,\"Excellent\",IF(B24>30,\"Good\",IF(B24>15,\"Fair\",\"Poor\")))")
        @@ t(lng, "accounting.analysis") :> ("=IF(B24>45,\"Efficient payables management\",IF(B24>30,\"Good payables period\",IF(B24>15,\"Adequate payment terms\",\"Short payment terms\")))")),
       (t(lng, "accounting.description") :> ("  " \o t(lng, "accounting.operatingCashFlowMargin"))
        @@ t(lng, "accounting.amount") :> ("=B17/SUMIFS(INDIRECT(\"ProfitAndLoss!B:B\"),INDIRECT(\"ProfitAndLoss!A:A\"),\"*Sales*\")")
        @@ t(lng, "accounting.trend") :> ("=IF(B25>" \o industryCashFlowBenchmarks.retail.operatingCashFlowMargin.excellent \o ",\"Excellent\",IF(B25>" \o industryCashFlowBenchmarks.retail.operatingCashFlowMargin.good \o ",\"Good\",IF(B25>" \o industryCashFlowBenchmarks.retail.operatingCashFlowMargin.fair \o ",\"Fair\",\"Poor\")))")
        @@ t(lng, "accounting.analysis") :> ("=IF(B25>" \o industryCashFlowBenchmarks.retail.operatingCashFlowMargin.excellent \o ",\"Above industry average\",IF(B25>" \o industryCashFlowBenchmarks.retail.operatingCashFlowMargin.good \o ",\"Industry average\",IF(B25>" \o industryCashFlowBenchmarks.retail.operatingCashFlowMargin.fair \o ",\"Below industry average\",\"Significantly below industry average\")))")),
       (t(lng, "accounting.description") :> ("  " \o t(lng, "accounting.cashFlowCoverage"))
        @@ t(lng, "accounting.amount") :> ("=B17/SUMIFS(INDIRECT(\"ProfitAndLoss!B:B\"),INDIRECT(\"ProfitAndLoss!A:A\"),\"*Interest Expense*\")")
        @@ t(lng, "accounting.trend") :> ("=IF(B26>3,\"Excellent\",IF(B26>2,\"Good\",IF(B26>1,\"Fair\",\"Poor\")))")
        @@ t(lng, "accounting.analysis") :> ("=IF(B26>3,\"Strong ability to service debt\",IF(B26>2,\"Good debt service capacity\",IF(B26>1,\"Adequate coverage\",\"Potential debt service issues\")))")),
       (t(lng, "accounting.description") :> ("  " \o t(lng, "accounting.cashFlowToDebt"))
        @@ t(lng, "accounting.amount") :> ("=B17/SUMIFS(INDIRECT(\"BalanceSheet!B:B\"),INDIRECT(\"BalanceSheet!A:A\"),\"*Total Debt*\")")
        @@ t(lng, "accounting.trend") :> ("=IF(B27>0.2,\"Excellent\",IF(B27>0.15,\"Good\",IF(B27>0.1,\"Fair\",\"Poor\")))")
        @@ t(lng, "accounting.analysis") :> ("=IF(B27>0.2,\"Strong debt repayment capacity\",IF(B27>0.15,\"Good debt management\",IF(B27>0.1,\"Adequate repayment ability\",\"Potential debt repayment issues\")))")),
       (t(lng, "accounting.description") :> ("  " \o t(lng, "accounting.cashFlowToRevenue"))
        @@ t(lng, "accounting.amount") :> ("=B17/SUMIFS(INDIRECT(\"ProfitAndLoss!B:B\"),INDIRECT(\"ProfitAndLoss!A:A\"),\"*Sales*\")")
        @@ t(lng, "accounting.trend") :> ("=IF(B28>0.15,\"Excellent\",IF(B28>0.1,\"Good\",IF(B28>0.05,\"Fair\",\"Poor\")))")
        @@ t(lng, "accounting.analysis") :> ("=IF(B28>0.15,\"Strong cash generation from sales\",IF(B28>0.1,\"Good cash conversion\",IF(B28>0.05,\"Adequate cash flow\",\"Poor cash conversion\")))")),
       (t(lng, "accounting.description") :> ("  " \o t(lng, "accounting.cashFlowToAssets"))
        @@ t(lng, "accounting.amount") :> ("=B17/SUMIFS(INDIRECT(\"BalanceSheet!B:B\"),INDIRECT(\"BalanceSheet!A:A\"),\"*Total Assets*\")")
        @@ t(lng, "accounting.trend") :> ("=IF(B29>0.1,\"Excellent\",IF(B29>0.05,\"Good\",IF(B29>0,\"Fair\",\"Poor\")))")
        @@ t(lng, "accounting.analysis") :> ("=IF(B29>0.1,\"Efficient asset utilization\",IF(B29>0.05,\"Good asset efficiency\",IF(B29>0,\"Adequate utilization\",\"Inefficient asset utilization\")))")) >>

\* handleExportReportsExcel building the trial balance from the page's ledger.
handleExportReportsExcelFromLedger(page, u, lng) ==
    [trialBalanceData |->
        [k \in DOMAIN page.ledgerEntries |->
            (t(lng, "accounting.account") :> page.ledgerEntries[k].account
             @@ t(lng, "accounting.debit") :> page.ledgerEntries[k].debit
             @@ t(lng, "accounting.credit") :> page.ledgerEntries[k].credit)],
     profitLossData |-> profitLossData(lng),
     balanceSheetData |-> balanceSheetData(lng),
     cashFlowData |-> cashFlowData(lng),
     industryAnalysisData |-> industryAnalysisData(lng),
     financialRatiosData |-> financialRatiosData(lng),
     marketMetricsData |-> marketMetricsData(lng),
     thrown |-> "ReferenceError: industryMetrics is not defined",
     sheets |-> << >>,
     file |-> ""]

\* The handler up to the statement that throws.  Lines 821-1232 (addFormatting,
\* the workbook, XLSX.writeFile) are not reached: no sheet is appended to a
\* workbook (sheets) and no file is written (file).
handleExportReportsExcel(page, u, lng) ==
    [trialBalanceData |-> trialBalanceData(lng),
     profitLossData |-> profitLossData(lng),
     balanceSheetData |-> balanceSheetData(lng),
     cashFlowData |-> cashFlowData(lng),
     industryAnalysisData |-> industryAnalysisData(lng),
     financialRatiosData |-> financialRatiosData(lng),
     marketMetricsData |-> marketMetricsData(lng),
     thrown |-> "ReferenceError: industryMetrics is not defined",
     sheets |-> << >>,
     file |-> ""]

\* The page of the twin: the Accounting page with the twin's two lists.
TwinPage ==
    [accounting EXCEPT !.ledgerEntries = twin.ledgerEntries,
                       !.journalEntries = twin.journalEntries]

\* A click on the export button of the reports tab, on the page and on the twin.
ExportReports ==
    /\ AccountingReady
    /\ exported' = [done |-> TRUE,
                    page |-> handleExportReportsExcel(accounting, user, language),
                    twin |-> handleExportReportsExcel(TwinPage, twin.user, language)]
    /\ UNCHANGED <<authLoading, user, location, rendered, store, fetches, ledgerWrites,
                   invoiceWrites, console, accounting, sales, language, twin, downloads, body>>

DateInputs == {"2024-01-01", Today}

\* The two date inputs above the tabs.
setDateRange(field, value) ==
    /\ AccountingReady
    /\ value # accounting.dateRange[field]
    /\ accounting' = [accounting EXCEPT !.dateRange[field] = value]
    /\ UNCHANGED <<authLoading, user, location, rendered, store, fetches, ledgerWrites,
                   invoiceWrites, console, sales, language, twin, exported, downloads, body>>

----------------------------------------------------------------------------
(* Accounting page: the ledger and journal exports *)

\* new Date(s) for the value of a date input: the days from the epoch to the
\* UTC midnight of s (getTime() / 86400000); any other string, the empty one
\* of a cleared input included, is an Invalid Date.
Date(s) ==
    CASE s = "2024-01-01" -> [valid |-> TRUE, time |-> 19723]
      [] s = "2024-01-10" -> [valid |-> TRUE, time |-> 19732]
      [] s = "2024-01-15" -> [valid |-> TRUE, time |-> 19737]
      [] s = "2024-01-20" -> [valid |-> TRUE, time |-> 19742]
      [] s = "2024-02-01" -> [valid |-> TRUE, time |-> 19754]
      [] OTHER -> [valid |-> FALSE, time |-> 0]

\* a >= b on two Date objects: their time values compared, false when
\* either is NaN.
DateGE(a, b) == a.valid /\ b.valid /\ a.time >= b.time

DateLE(a, b) == a.valid /\ b.valid /\ a.time <= b.time

\* n.toFixed(2) of a whole amount.
toFixed(n) == ToString(n) \o ".00"

\* lines.join('\n')
RECURSIVE join(_, _)
join(lines, separator) ==
    IF lines = << >> THEN ""
    ELSE IF Len(lines) = 1 THEN lines[1]
    ELSE lines[1] \o separator \o join(Tail(lines), separator)

\* The filter of both handlers (lines 124-129, 154-159).
InDateRange(entry, dateRange) ==
    LET entryDate == Date(entry.date)
        fromDate == Date(dateRange.from)
        toDate == Date(dateRange.to)
    IN DateGE(entryDate, fromDate) /\ DateLE(entryDate, toDate)

\* handleExportLedgerExcel leaving out the entries dated dateRange.to.
handleExportLedgerExcelExclusive(page, lng) ==
    LET filteredEntries ==
            SelectSeq(page.ledgerEntries,
                      LAMBDA entry : /\ DateGE(Date(entry.date), Date(page.dateRange.from))
                                     /\ DateLE(Date(entry.date), Date(page.dateRange.to))
                                     /\ entry.date # page.dateRange.to)
        exportData ==
            [k \in DOMAIN filteredEntries |->
                LET entry == filteredEntries[k] IN
                (t(lng, "accounting.date") :> entry.date)
                @@ (t(lng, "accounting.account") :> entry.account)
                @@ (t(lng, "accounting.description") :> entry.description)
                @@ (t(lng, "accounting.debit") :> toFixed(entry.debit))
                @@ (t(lng, "accounting.credit") :> toFixed(entry.credit))]
    IN [filename |-> "ledger-entries-" \o page.dateRange.from \o "-to-" \o page.dateRange.to,
        sheetName |-> t(lng, "accounting.ledger"),
        data |-> exportData,
        headers |-> << t(lng, "accounting.date"), t(lng, "accounting.account"),
                       t(lng, "accounting.description"), t(lng, "accounting.debit"),
                       t(lng, "accounting.credit") >>]

\* handleExportLedgerExcel: the options it hands to generateExcel.
handleExportLedgerExcel(page, lng) ==
    LET filteredEntries ==
            SelectSeq(page.ledgerEntries, LAMBDA entry : InDateRange(entry, page.dateRange))
        exportData ==
            [k \in DOMAIN filteredEntries |->
                LET entry == filteredEntries[k] IN
                (t(lng, "accounting.date") :> entry.date)
                @@ (t(lng, "accounting.account") :> entry.account)
                @@ (t(lng, "accounting.description") :> entry.description)
                @@ (t(lng, "accounting.debit") :> toFixed(entry.debit))
                @@ (t(lng, "accounting.credit") :> toFixed(entry.credit))]
    IN [filename |-> "ledger-entries-" \o page.dateRange.from \o "-to-" \o page.dateRange.to,
        sheetName |-> t(lng, "accounting.ledger"),
        data |-> exportData,
        headers |-> << t(lng, "accounting.date"), t(lng, "accounting.account"),
                       t(lng, "accounting.description"), t(lng, "accounting.debit"),
                       t(lng, "accounting.credit") >>]

\* handleExportJournalExcel: the options it hands to generateExcel.
handleExportJournalExcel(page, lng) ==
    LET filteredEntries ==
            SelectSeq(page.journalEntries, LAMBDA entry : InDateRange(entry, page.dateRange))
        exportData ==
            [k \in DOMAIN filteredEntries |->
                LET entry == filteredEntries[k] IN
                (t(lng, "accounting.date") :> entry.date)
                @@ (t(lng, "accounting.description") :> entry.description)
                @@ (t(lng, "accounting.entries") :>
                      join([j \in DOMAIN entry.entries |->
                              LET e == entry.entries[j] IN
                              e.account \o ": " \o toFixed(e.debit) \o " Dr / "
                                        \o toFixed(e.credit) \o " Cr"],
                           "\n"))]
    IN [filename |-> "journal-entries-" \o page.dateRange.from \o "-to-" \o page.dateRange.to,
        sheetName |-> t(lng, "accounting.journal"),
        data |-> exportData,
        headers |-> << t(lng, "accounting.date"), t(lng, "accounting.description"),
                       t(lng, "accounting.entries") >>]

\* A click on the export button of the ledger tab.
ExportLedger ==
    /\ AccountingReady
    /\ accounting.activeTab = "ledger"
    /\ ExcelExport(handleExportLedgerExcel(accounting, language))

\* handleExportJournalExcel run on the page as it stands.
ExportJournal ==
    /\ AccountingReady
    /\ ExcelExport(handleExportJournalExcel(accounting, language))

\* Values of the two date inputs: three days and the cleared input.
RangeInputs == {"", "2024-01-01", Today, "2024-02-01"}

\* Dates of the entries in the lists that are exported.
EntryDates == {Today, "2024-02-01"}

----------------------------------------------------------------------------
(* Sales page *)

CustomerNames == {"", "Acme"}
ItemFields == {"description"}

ItemValues(field) ==
    CASE field = "description" -> {"", "Widget"}
      [] field = "quantity" -> {1, 2}
      [] field = "rate" -> {0, 1}

InvoicesWritten == Len(store.invoices) - Len(InitialStore.invoices)

calculateAmount(quantity, rate) == quantity * rate

\* items.reduce((sum, item) => sum + item.amount, 0)
RECURSIVE SumAmounts(_)
SumAmounts(items) ==
    IF items = << >> THEN 0
    ELSE SumAmounts(SubSeq(items, 1, Len(items) - 1)) + items[Len(items)].amount

\* handleItemChange computing the amount from the item as it was.
handleItemChangeStale(items, index, field, value) ==
    LET old == items[index]
        changed == [old EXCEPT ![field] = value]
        amount ==
            IF field = "quantity" \/ field = "rate"
            THEN calculateAmount(old.quantity, old.rate)
            ELSE old.amount
    IN [items EXCEPT ![index] = [changed EXCEPT !.amount = amount]]

handleItemChange(items, index, field, value) ==
    LET old == items[index]
        changed == [old EXCEPT ![field] = value]
        amount ==
            IF field = "quantity" \/ field = "rate"
            THEN calculateAmount(IF field = "quantity" THEN value ELSE old.quantity,
                                 IF field = "rate" THEN value ELSE old.rate)
            ELSE old.amount
    IN [items EXCEPT ![index] = [changed EXCEPT !.amount = amount]]

addItem(items) == Append(items, ItemInit)

removeItem(items, index) == RemoveAt(items, index)

SalesItemChange(index, field, value) ==
    /\ rendered = "Sales"
    /\ sales.showForm
    /\ index \in DOMAIN sales.items
    /\ sales.items[index][field] # value
    /\ sales' = [sales EXCEPT !.items = handleItemChange(sales.items, index, field, value)]
    /\ UNCHANGED <<authLoading, user, location, rendered, store, fetches, ledgerWrites,
                   invoiceWrites, console, accounting, language, twin, exported, downloads, body>>

SalesAddItem ==
    /\ rendered = "Sales"
    /\ sales.showForm
    /\ sales' = [sales EXCEPT !.items = addItem(sales.items)]
    /\ UNCHANGED <<authLoading, user, location, rendered, store, fetches, ledgerWrites,
                   invoiceWrites, console, accounting, language, twin, exported, downloads, body>>

SalesRemoveItem(index) ==
    /\ rendered = "Sales"
    /\ sales.showForm
    /\ index \in DOMAIN sales.items
    /\ sales' = [sales EXCEPT !.items = removeItem(sales.items, index)]
    /\ UNCHANGED <<authLoading, user, location, rendered, store, fetches, ledgerWrites,
                   invoiceWrites, console, accounting, language, twin, exported, downloads, body>>

setCustomerName(value) ==
    /\ rendered = "Sales"
    /\ sales.showForm
    /\ sales.customerName # value
    /\ sales' = [sales EXCEPT !.customerName = value]
    /\ UNCHANGED <<authLoading, user, location, rendered, store, fetches, ledgerWrites,
                   invoiceWrites, console, accounting, language, twin, exported, downloads, body>>

\* onClick={() => setShowForm(!showForm)}
SalesToggleForm ==
    /\ rendered = "Sales"
    /\ sales' = [sales EXCEPT !.showForm = ~sales.showForm]
    /\ UNCHANGED <<authLoading, user, location, rendered, store, fetches, ledgerWrites,
                   invoiceWrites, console, accounting, language, twin, exported, downloads, body>>

InvoiceTenant(u) == u.uid

\* invoiceData with the total taken from the first item alone.
invoiceDataFirstItem(form, u) ==
    [customerName |-> form.customerName, date |-> form.date, items |-> form.items,
     totalAmount |-> IF form.items = << >> THEN 0 ELSE form.items[1].amount,
     status |-> "draft", tenantId |-> InvoiceTenant(u)]

\* invoiceData of Sales.handleSubmit
invoiceData(form, u) ==
    [customerName |-> form.customerName, date |-> form.date, items |-> form.items,
     totalAmount |-> SumAmounts(form.items), status |-> "draft",
     tenantId |-> InvoiceTenant(u)]

fetchInvoices(u) ==
    IF u.uid = "" THEN << >>
    ELSE << [kind |-> "fetchInvoices", coll |-> "invoices", user |-> u, value |-> u.uid] >>

\* The browser hands the form to onSubmit only when its inputs are valid:
\* customer name, date and every item's description are required, a
\* quantity is 1 at least and a rate 0 at least.
InvoiceFormValid(form) ==
    /\ form.customerName # ""
    /\ form.date # ""
    /\ \A k \in DOMAIN form.items :
          /\ form.items[k].description # ""
          /\ form.items[k].quantity >= 1
          /\ form.items[k].rate >= 0

\* Sales.handleSubmit up to its await.  The submit button is disabled while
\* loading is true.
SalesHandleSubmit ==
    /\ rendered = "Sales"
    /\ sales.showForm
    /\ ~sales.loading
    /\ InvoiceFormValid(sales)
    /\ InFlight < MaxInFlight
    /\ sales' = [sales EXCEPT !.loading = TRUE]
    /\ invoiceWrites' = Append(invoiceWrites, [user |-> user, data |-> invoiceData(sales, user)])
    /\ UNCHANGED <<authLoading, user, location, rendered, store, fetches, ledgerWrites,
                   console, accounting, language, twin, exported, downloads, body>>

\* addDoc resolved: the form is reset, fetchInvoices is started and the
\* finally block runs.
SalesSubmitResolved(i) ==
    /\ i \in DOMAIN invoiceWrites
    /\ LET c == invoiceWrites[i]
           id == Len(store.invoices) + 1
       IN
        /\ store' = [store EXCEPT !.invoices =
                        Append(@, [id |-> id, customerName |-> c.data.customerName,
                                   date |-> c.data.date, items |-> c.data.items,
                                   totalAmount |-> c.data.totalAmount,
                                   status |-> c.data.status, tenantId |-> c.data.tenantId])]
        /\ fetches' = fetches \o fetchInvoices(c.user)
    /\ invoiceWrites' = RemoveAt(invoiceWrites, i)
    /\ sales' = [sales EXCEPT !.customerName = "", !.date = Today, !.items = <<ItemInit>>,
                              !.showForm = FALSE, !.loading = FALSE]
    /\ UNCHANGED <<authLoading, user, location, rendered, ledgerWrites, console,
                   accounting, language, twin, exported, downloads, body>>

\* Sales.handleSubmit without its finally block.
SalesSubmitRejectedNoFinally(i) ==
    /\ i \in DOMAIN invoiceWrites
    /\ invoiceWrites' = RemoveAt(invoiceWrites, i)
    /\ console' = Logged(console, "Error creating invoice:")
    /\ UNCHANGED <<authLoading, user, location, rendered, store, fetches, ledgerWrites,
                   accounting, sales, language, twin, exported, downloads, body>>

\* addDoc rejected: the catch block, then the finally block.
SalesSubmitRejected(i) ==
    /\ i \in DOMAIN invoiceWrites
    /\ invoiceWrites' = RemoveAt(invoiceWrites, i)
    /\ console' = Logged(console, "Error creating invoice:")
    /\ sales' = [sales EXCEPT !.loading = FALSE]
    /\ UNCHANGED <<authLoading, user, location, rendered, store, fetches, ledgerWrites,
                   accounting, language, twin, exported, downloads, body>>

fetchInvoicesResolved(i) ==
    /\ i \in DOMAIN fetches
    /\ fetches[i].kind = "fetchInvoices"
    /\ fetches' = RemoveAt(fetches, i)
    /\ sales' = [sales EXCEPT !.invoices = getDocs("invoices", fetches[i].value)]
    /\ UNCHANGED <<authLoading, user, location, rendered, store, ledgerWrites,
                   invoiceWrites, console, accounting, language, twin, exported, downloads, body>>

fetchInvoicesRejected(i) ==
    /\ i \in DOMAIN fetches
    /\ fetches[i].kind = "fetchInvoices"
    /\ fetches' = RemoveAt(fetches, i)
    /\ console' = Logged(console, "Error fetching invoices:")
    /\ UNCHANGED <<authLoading, user, location, rendered, store, ledgerWrites,
                   invoiceWrites, accounting, sales, language, twin, exported, downloads, body>>

\* Sales.handlePrint up to its await: the element is built from the invoice
\* of the row and appended to document.body, and generatePDF is called with
\* it and the file name `invoice-${invoice.id}.pdf`.
SalesHandlePrint(row) ==
    /\ rendered = "Sales"
    /\ row \in DOMAIN sales.invoices
    /\ LET invoice == sales.invoices[row] IN
       body' = Append(body, [invoice |-> invoice.id,
                             file |-> "invoice-" \o ToString(invoice.id) \o ".pdf",
                             pending |-> TRUE])
    /\ UNCHANGED <<authLoading, user, location, rendered, store, fetches, ledgerWrites,
                   invoiceWrites, console, accounting, sales, language, twin, exported,
                   downloads>>

\* The generatePDF promise of the element at position i resolves:
\* document.body.removeChild(element).
generatePDFResolved(i) ==
    /\ i \in DOMAIN body
    /\ body[i].pending
    /\ body' = RemoveAt(body, i)
    /\ UNCHANGED <<authLoading, user, location, rendered, store, fetches, ledgerWrites,
                   invoiceWrites, console, accounting, sales, language, twin, exported,
                   downloads>>

\* The generatePDF promise of the element at position i rejects: the await
\* throws, handlePrint has no try block, and its own promise rejects with
\* the statement after the await not run.
generatePDFRejected(i) ==
    /\ i \in DOMAIN body
    /\ body[i].pending
    /\ body' = [body EXCEPT ![i].pending = FALSE]
    /\ UNCHANGED <<authLoading, user, location, rendered, store, fetches, ledgerWrites,
                   invoiceWrites, console, accounting, sales, language, twin, exported,
                   downloads>>

SalesNext ==
    \/ \E index \in 1 .. MaxItems :
        \/ \E field \in ItemFields : \E value \in ItemValues(field) :
              SalesItemChange(index, field, value)
        \/ SalesRemoveItem(index)
    \/ Len(sales.items) < MaxItems /\ SalesAddItem
    \/ \E value \in CustomerNames : setCustomerName(value)
    \/ SalesToggleForm
    \/ InvoicesWritten + Len(invoiceWrites) < MaxWrites /\ SalesHandleSubmit
    \/ \E i \in 1 .. MaxInFlight :
        \/ SalesSubmitResolved(i)
        \/ SalesSubmitRejected(i)
        \/ fetchInvoicesResolved(i)
        \/ fetchInvoicesRejected(i)

----------------------------------------------------------------------------
(* The application *)

\* A page under the shared layout is on screen: the auth context has
\* resolved to a signed-in user.
PageInit(paths) ==
    /\ authLoading = FALSE
    /\ user \in SignedIn
    /\ location \in paths
    /\ rendered = App(location, authLoading, user)
    /\ store = InitialStore
    /\ fetches = << >>
    /\ ledgerWrites = << >>
    /\ invoiceWrites = << >>
    /\ console = NoErrors
    /\ accounting = AccountingInit
    /\ sales = SalesInit
    /\ language = "en"
    /\ twin = NoTwin
    /\ exported = NotExported
    /\ downloads = << >>
    /\ body = << >>

\* Data access of the two pages while the signed-in user changes: the
\* effects, the submits of the forms as they stand, and the promises.
Init == PageInit({"/accounting", "/sales"})

Next ==
    \/ \E u \in SignedIn : AuthChange(u)
    \/ AccountingEffect
    \/ SalesToggleForm
    \/ setCustomerName("Acme")
    \/ SalesItemChange(1, "description", "Widget")
    \/ InvoicesWritten + Len(invoiceWrites) < MaxWrites /\ SalesHandleSubmit
    \/ \E i \in 1 .. MaxInFlight :
        \/ fetchLedgerEntriesResolved(i)
        \/ fetchLedgerEntriesRejected(i)
        \/ fetchJournalEntriesResolved(i)
        \/ fetchJournalEntriesRejected(i)
        \/ SalesSubmitResolved(i)
        \/ SalesSubmitRejected(i)
        \/ fetchInvoicesResolved(i)
        \/ fetchInvoicesRejected(i)

Spec == Init /\ [][Next]_vars

\* The Accounting page with its ledger form, for one signed-in user.
InitLedger == PageInit({"/accounting"})

SpecLedger == InitLedger /\ [][AccountingNext]_vars

\* The Sales page with its invoice form, for one signed-in user.
InitSales == PageInit({"/sales"})

SpecSales == InitSales /\ [][SalesNext]_vars

\* The route tree from the first render of the application.
InitRoute ==
    /\ authLoading = TRUE
    /\ user = NoUser
    /\ location \in Paths
    /\ rendered = App(location, TRUE, NoUser)
    /\ store = InitialStore
    /\ fetches = << >>
    /\ ledgerWrites = << >>
    /\ invoiceWrites = << >>
    /\ console = NoErrors
    /\ accounting = AccountingInit
    /\ sales = SalesInit
    /\ language = "en"
    /\ twin = NoTwin
    /\ exported = NotExported
    /\ downloads = << >>
    /\ body = << >>

NextRoute ==
    \/ \E u \in Users : AuthResolved(u) \/ AuthChange(u)
    \/ AuthReloading
    \/ Navigate
    \/ \E path \in Paths : Link(path)
    \/ LayoutToggleLanguage
    \/ NavbarLanguageClick

SpecRoute == InitRoute /\ [][NextRoute]_vars

\* The invoice form, its line items and its submit; the refresh that a
\* successful submit starts stays pending.
InvoiceFields == {"description", "rate"}

NextInvoice ==
    \/ SalesToggleForm
    \/ \E index \in 1 .. MaxFormItems :
        \/ \E field \in InvoiceFields : \E value \in ItemValues(field) :
              SalesItemChange(index, field, value)
        \/ SalesRemoveItem(index)
    \/ Len(sales.items) < MaxFormItems /\ SalesAddItem
    \/ setCustomerName("Acme")
    \/ InvoicesWritten + Len(invoiceWrites) < MaxWrites /\ SalesHandleSubmit
    \/ \E i \in 1 .. MaxInFlight : SalesSubmitResolved(i) \/ SalesSubmitRejected(i)

\* The invoice form in the session of the admin.
InitInvoice == InitSales /\ user.role = "admin"

SpecInvoice == InitInvoice /\ [][NextInvoice]_vars

\* The line items of the invoice form alone.
NextItems ==
    \/ SalesToggleForm
    \/ \E index \in 1 .. MaxFormItems :
        \/ \E field \in {"description", "quantity", "rate"} : \E value \in ItemValues(field) :
              SalesItemChange(index, field, value)
        \/ SalesRemoveItem(index)
    \/ Len(sales.items) < MaxFormItems /\ SalesAddItem

SpecItems == InitSales /\ [][NextItems]_vars

\* generateExcel called with options of every kind, one call after another.
NextExcel == \E options \in ExcelOptions : ExcelExport(options)

SpecExcel == InitSales /\ [][NextExcel]_vars

\* The ledger list of the Accounting page: the effect, the submits of the
\* form as it stands (a second one may start before the first has settled)
\* and the promises.
NextLedgerList ==
    \/ AccountingEffect
    \/ \E i \in 1 .. MaxInFlight :
        \/ fetchLedgerEntriesResolved(i)
        \/ fetchLedgerEntriesRejected(i)
        \/ fetchJournalEntriesResolved(i)
        \/ fetchJournalEntriesRejected(i)
        \/ AccountingSubmitResolved(i)
        \/ AccountingSubmitRejected(i)
    \/ AccountingToggleForm
    \/ \E value \in FormValues("date") : setFormData("date", value)
    \/ LedgerWritten + Len(ledgerWrites) < MaxLedgerWrites /\ AccountingHandleSubmit

SpecLedgerList == InitLedger /\ [][NextLedgerList]_vars

\* The Accounting page of the admin after both fetches have resolved, over
\* stores whose entries of the tenant are dated in any order.
LedgerEntryAt(k, date) ==
    [id |-> k, date |-> date, account |-> "Cash", description |-> "Entry " \o ToString(k),
     debit |-> 1, credit |-> 0, tenantId |-> "t1"]

JournalEntryAt(k, date) ==
    [id |-> k, date |-> date, description |-> "Adjustment " \o ToString(k),
     entries |-> JournalLines, tenantId |-> "t1"]

DateLists == UNION {[1 .. n -> EntryDates] : n \in 0 .. MaxEntries}

InitExport ==
    /\ authLoading = FALSE
    /\ user \in {u \in SignedIn : u.tenantId = "t1"}
    /\ location = "/accounting"
    /\ rendered = App(location, authLoading, user)
    /\ \E dates \in DateLists :
          store = [ledgerEntries |-> [k \in DOMAIN dates |-> LedgerEntryAt(k, dates[k])],
                   journalEntries |-> [k \in DOMAIN dates |-> JournalEntryAt(k, dates[k])],
                   invoices |-> << >>]
    /\ fetches = << >>
    /\ ledgerWrites = << >>
    /\ invoiceWrites = << >>
    /\ console = NoErrors
    /\ accounting = [AccountingInit EXCEPT
                        !.ledgerEntries = getDocs("ledgerEntries", user.tenantId),
                        !.journalEntries = getDocs("journalEntries", user.tenantId),
                        !.loading = FALSE, !.deps = user]
    /\ sales = SalesInit
    /\ language = "en"
    /\ twin = NoTwin
    /\ exported = NotExported
    /\ downloads = << >>
    /\ body = << >>

NextExport ==
    \/ \E field \in {"from", "to"}, value \in RangeInputs : setDateRange(field, value)
    \/ Len(downloads) < MaxExports /\ ExportLedger
    \/ Len(downloads) < MaxExports /\ ExportJournal

SpecExport == InitExport /\ [][NextExport]_vars

\* The Sales page of the admin from the form to the print button of a listed
\* invoice.
NextPrint ==
    \/ SalesToggleForm
    \/ setCustomerName("Acme")
    \/ SalesItemChange(1, "description", "Widget")
    \/ InvoicesWritten + Len(invoiceWrites) < MaxWrites /\ SalesHandleSubmit
    \/ \E i \in 1 .. MaxInFlight :
        \/ SalesSubmitResolved(i)
        \/ SalesSubmitRejected(i)
        \/ fetchInvoicesResolved(i)
        \/ fetchInvoicesRejected(i)
    \/ \E row \in 1 .. MaxWrites : Len(body) < MaxPrints /\ SalesHandlePrint(row)
    \/ \E i \in 1 .. MaxPrints : generatePDFResolved(i) \/ generatePDFRejected(i)

SpecPrint == InitInvoice /\ [][NextPrint]_vars

\* The ledger page with a user who keeps acting and promises that settle:
\* every step that stays possible is eventually taken.
SpecTabs == InitLedger /\ [][NextLedgerList]_vars /\ WF_vars(NextLedgerList)

\* The invoice list of the Sales page in a tenant with two users: the
\* colleague is signed in first, then the admin of the same tenant.
Colleague == [present |-> TRUE, uid |-> "u4", tenantId |-> "t1", role |-> "user"]

TenantUsers == {u \in SignedIn : u.tenantId = Colleague.tenantId} \cup {Colleague}

InitInvoiceList ==
    /\ authLoading = FALSE
    /\ user = Colleague
    /\ location = "/sales"
    /\ rendered = App(location, authLoading, user)
    /\ store = InitialStore
    /\ fetches = << >>
    /\ ledgerWrites = << >>
    /\ invoiceWrites = << >>
    /\ console = NoErrors
    /\ accounting = AccountingInit
    /\ sales = SalesInit
    /\ language = "en"
    /\ twin = NoTwin
    /\ exported = NotExported
    /\ downloads = << >>
    /\ body = << >>

NextInvoiceList ==
    \/ \E u \in TenantUsers : AuthChange(u)
    \/ SalesToggleForm
    \/ setCustomerName("Acme")
    \/ SalesItemChange(1, "description", "Widget")
    \/ InvoicesWritten + Len(invoiceWrites) < MaxInvoiceWrites /\ SalesHandleSubmit
    \/ \E i \in 1 .. MaxInFlight :
        \/ SalesSubmitResolved(i)
        \/ SalesSubmitRejected(i)
        \/ fetchInvoicesResolved(i)
        \/ fetchInvoicesRejected(i)

SpecInvoiceList == InitInvoiceList /\ [][NextInvoiceList]_vars

\* The reports export on a page whose effect has run, beside a second page
\* that differs from it in the user and in the two lists only.
FetchedLists(coll) ==
    {<< >>} \cup {SelectSeq(InitialStore[coll], LAMBDA d : d.tenantId = v) : v \in {"t1", "t2"}}

InitReports ==
    /\ authLoading = FALSE
    /\ user \in SignedIn
    /\ location = "/accounting"
    /\ rendered = App(location, authLoading, user)
    /\ store = InitialStore
    /\ fetches = << >>
    /\ ledgerWrites = << >>
    /\ invoiceWrites = << >>
    /\ console = NoErrors
    /\ \E ledger \in FetchedLists("ledgerEntries"), journal \in FetchedLists("journalEntries") :
          accounting = [AccountingInit EXCEPT !.ledgerEntries = ledger,
                                              !.journalEntries = journal,
                                              !.loading = FALSE, !.deps = user]
    /\ sales = SalesInit
    /\ language = "en"
    /\ twin \in [user : SignedIn, ledgerEntries : FetchedLists("ledgerEntries"),
                 journalEntries : FetchedLists("journalEntries")]
    /\ exported = NotExported
    /\ downloads = << >>
    /\ body = << >>

NextReports ==
    \/ ExportReports
    \/ \E field \in {"from", "to"}, value \in DateInputs : setDateRange(field, value)
    \/ LayoutToggleLanguage

SpecReports == InitReports /\ [][NextReports]_vars

----------------------------------------------------------------------------
(* Properties *)

HasTenant(u) == u.present /\ u.tenantId # ""

\* The list a fetch function replaces.
FetchedList(kind, acc, sal) ==
    CASE kind = "fetchLedgerEntries" -> acc.ledgerEntries
      [] kind = "fetchJournalEntries" -> acc.journalEntries
      [] kind = "fetchInvoices" -> sal.invoices

\* The getDocs promise at position i resolves in this step.
Resolves(i) == fetches' = RemoveAt(fetches, i) /\ console' = console

\* C1: every query in flight was issued for a user with a tenant identifier,
\* and when a fetch function replaces its list every record placed in it has
\* the tenantId of the user the query was issued for.
TenantIsolationOnRead ==
    [][ /\ \A i \in DOMAIN fetches' : HasTenant(fetches'[i].user)
        /\ \A i \in DOMAIN fetches :
             Resolves(i) =>
                LET list == FetchedList(fetches[i].kind, accounting', sales') IN
                \A k \in DOMAIN list : list[k].tenantId = fetches[i].user.tenantId
      ]_vars

\* The same for the two fetch functions of the Accounting page alone.
AccountingIsolationOnRead ==
    [][ /\ \A i \in DOMAIN fetches' :
             fetches'[i].kind # "fetchInvoices" => HasTenant(fetches'[i].user)
        /\ \A i \in DOMAIN fetches :
             (Resolves(i) /\ fetches[i].kind # "fetchInvoices") =>
                LET list == FetchedList(fetches[i].kind, accounting', sales') IN
                \A k \in DOMAIN list : list[k].tenantId = fetches[i].user.tenantId
      ]_vars

\* The document an addDoc promise of the sequence writes has just put into the collection.
Written(writes, coll, i) ==
    /\ writes' = RemoveAt(writes, i)
    /\ Len(store'[coll]) = Len(store[coll]) + 1

\* C2: every document a submit handler persists carries in tenantId the
\* tenant identifier of the submitting user, and that identifier is present.
TenantTaggingOnWrite ==
    [][ /\ \A i \in DOMAIN ledgerWrites :
             Written(ledgerWrites, "ledgerEntries", i) =>
                LET d == store'.ledgerEntries[Len(store'.ledgerEntries)] IN
                d.tenantId = ledgerWrites[i].user.tenantId /\ d.tenantId # ""
        /\ \A i \in DOMAIN invoiceWrites :
             Written(invoiceWrites, "invoices", i) =>
                LET d == store'.invoices[Len(store'.invoices)] IN
                d.tenantId = invoiceWrites[i].user.tenantId /\ d.tenantId # ""
      ]_vars

\* C3: on a guarded route the children are rendered exactly when loading is
\* false and a user is present, the redirect exactly when loading is false
\* and no user is present, and the spinner alone while loading is true; the
\* location becomes /login only from such a redirect.
PrivateRouteGuard ==
    /\ [](location \in ProtectedPaths =>
            /\ rendered \in ProtectedPages <=> (~authLoading /\ user.present)
            /\ rendered = "Navigate" <=> (~authLoading /\ ~user.present)
            /\ rendered = "Spinner" <=> authLoading)
    /\ [][location' = "/login" /\ location # "/login" =>
            ~authLoading /\ ~user.present /\ rendered = "Navigate"]_vars

RedirectRendered ==
    /\ location \in ProtectedPaths
    /\ rendered = "Navigate"
    /\ ~authLoading
    /\ ~user.present

\* C4: each page other than the login page is rendered only for a signed-in
\* user whose authentication has resolved, at the path its route declares;
\* without a user nothing but the login page is shown.
RouteProtection ==
    /\ rendered \in {"Dashboard", "Sales", "Purchases", "Accounting", "Reports", "Settings"}
          => user.present /\ ~authLoading /\ rendered = ProtectedPage(location)
    /\ ~user.present => rendered \in {"Login", "Spinner", "Navigate", "NoMatch"}
    /\ rendered = "Login" <=> location = "/login"

SettingsShownToUser ==
    /\ location = "/settings"
    /\ rendered = "Settings"
    /\ user.present

\* C5: when addDoc rejects in Accounting.handleSubmit the error is logged and
\* nothing else happens: ledgerEntries, formData and showForm keep their
\* values, the store is not written, and the failed write is not tried again.
LedgerSubmitFailureKeepsState ==
    [][ (console' # console /\ console'.last = "Error creating ledger entry:") =>
            /\ accounting'.ledgerEntries = accounting.ledgerEntries
            /\ accounting'.formData = accounting.formData
            /\ accounting'.showForm = accounting.showForm
            /\ store' = store
            /\ Len(ledgerWrites') = Len(ledgerWrites) - 1
            /\ fetches' = fetches
      ]_vars

LedgerSubmitFailed ==
    /\ console.last = "Error creating ledger entry:"
    /\ ledgerWrites = << >>
    /\ accounting.showForm
    /\ accounting.formData.debit = 1
    /\ accounting.ledgerEntries # << >>

\* C6: when getDocs rejects in one of the three fetch functions the error is
\* logged and nothing else happens: the three lists keep their contents and
\* the failed query is not issued again.
FetchFailureKeepsList ==
    [][ (console' # console /\ console'.last \in
            {"Error fetching ledger entries:", "Error fetching journal entries:",
             "Error fetching invoices:"}) =>
            /\ accounting'.ledgerEntries = accounting.ledgerEntries
            /\ accounting'.journalEntries = accounting.journalEntries
            /\ sales'.invoices = sales.invoices
            /\ Len(fetches') = Len(fetches) - 1
            /\ store' = store
            /\ ledgerWrites' = ledgerWrites
            /\ invoiceWrites' = invoiceWrites
      ]_vars

LedgerFetchFailedAfterSuccess ==
    /\ console.last = "Error fetching ledger entries:"
    /\ accounting.ledgerEntries # << >>
    /\ \A i \in DOMAIN fetches : fetches[i].kind # "fetchLedgerEntries"

\* C7: Sales.handleSubmit holds loading true while its write is in flight and
\* leaves it false when the write settles; when the write rejects the form
\* keeps customerName, date, items and showForm and fetchInvoices is not started.
SalesSubmitLoading ==
    [][ /\ Len(invoiceWrites') > Len(invoiceWrites) => sales'.loading
        /\ Len(invoiceWrites') < Len(invoiceWrites) => ~sales'.loading
        /\ invoiceWrites' # << >> => sales'.loading
        /\ (console' # console /\ console'.last = "Error creating invoice:") =>
              /\ sales'.customerName = sales.customerName
              /\ sales'.date = sales.date
              /\ sales'.items = sales.items
              /\ sales'.showForm = sales.showForm
              /\ fetches' = fetches
              /\ store' = store
      ]_vars

InvoiceSubmitFailed ==
    /\ console.last = "Error creating invoice:"
    /\ invoiceWrites = << >>
    /\ ~sales.loading
    /\ sales.showForm
    /\ sales.customerName = "Acme"
    /\ sales.items # <<ItemInit>>

\* The ledger form is filled and can be submitted, whatever amounts it holds.
LedgerSubmitOffered ==
    /\ AccountingReady
    /\ accounting.activeTab = "ledger"
    /\ accounting.showForm
    /\ accounting.formData.date # ""
    /\ HasTenant(user)
    /\ InFlight < MaxInFlight

ReportsExportStatic ==
    exported.done => exported.page = exported.twin

ExportedOnDifferingPages ==
    /\ exported.done
    /\ exported.page.trialBalanceData # << >>
    /\ twin.user.tenantId # user.tenantId
    /\ twin.ledgerEntries # accounting.ledgerEntries
    /\ twin.journalEntries # accounting.journalEntries
    /\ accounting.ledgerEntries # << >>

\* C10: whenever a fetchLedgerEntries promise resolves, whatever its place
\* among the promises in flight and whoever the user is by then, ledgerEntries
\* becomes the result of that query.
ResolutionOrderDecides ==
    [][ \A i \in DOMAIN fetches :
            (Resolves(i) /\ fetches[i].kind = "fetchLedgerEntries") =>
                accounting'.ledgerEntries = getDocs("ledgerEntries", fetches[i].user.tenantId)
      ]_vars

\* The query issued first resolved last: nothing is in flight or has failed,
\* the effect has run for the current user, and the list is the other tenant's.
StaleLedgerShown ==
    /\ rendered = "Accounting"
    /\ accounting.deps = user
    /\ HasTenant(user)
    /\ fetches = << >>
    /\ console = NoErrors
    /\ accounting.ledgerEntries # << >>
    /\ \A k \in DOMAIN accounting.ledgerEntries :
          accounting.ledgerEntries[k].tenantId # user.tenantId

\* C11: toggleLanguage takes 'en' to 'ne' and every other language to 'en',
\* the Navbar and the Layout definitions agree on every language, the
\* language of the application is always 'en' or 'ne', and a toggle applied
\* to the result of a toggle gives back the language before it.
LanguageToggleBilingual ==
    /\ [](language \in {"en", "ne"})
    /\ [](\A lng \in Languages :
            /\ NavbarToggleLanguage(lng) = (IF lng = "en" THEN "ne" ELSE "en")
            /\ NavbarToggleLanguage(lng) = toggleLanguage(lng))
    /\ [][language' # language =>
            /\ NavbarToggleLanguage(language') = language
            /\ toggleLanguage(language') = language]_vars

ToggledToNepali ==
    /\ language = "ne"
    /\ rendered \in ProtectedPages

\* The sum of the amount fields of a list of items, 0 for the empty list.
ItemsTotal(items) ==
    LET total[k \in 0 .. Len(items)] ==
            IF k = 0 THEN 0 ELSE total[k - 1] + items[k].amount
    IN total[Len(items)]

\* C12: the write Sales.handleSubmit starts carries the items of the form at
\* that moment, in their order, with status 'draft' and with totalAmount the
\* sum of their amounts; the document written is the one the write carries.
InvoiceTotal ==
    [][ /\ Len(invoiceWrites') > Len(invoiceWrites) =>
              LET data == invoiceWrites'[Len(invoiceWrites')].data IN
              /\ data.items = sales.items
              /\ data.totalAmount = ItemsTotal(sales.items)
              /\ data.status = "draft"
        /\ \A i \in DOMAIN invoiceWrites :
              Written(invoiceWrites, "invoices", i) =>
                 LET d == store'.invoices[Len(store'.invoices)] IN
                 /\ d.items = invoiceWrites[i].data.items
                 /\ d.totalAmount = ItemsTotal(d.items)
                 /\ d.status = "draft"
      ]_vars

InvoiceOfTwoItemsWritten ==
    \E k \in DOMAIN store.invoices :
        /\ Len(store.invoices[k].items) = 2
        /\ store.invoices[k].items[1].amount > 0
        /\ store.invoices[k].items[2].amount > 0
        /\ store.invoices[k].totalAmount > store.invoices[k].items[1].amount

\* C15: every item of the form has amount = quantity * rate; a step that
\* keeps the number of items changes one item at most, and if it changes the
\* description of that item it keeps the item's quantity, rate and amount.
LineItemAmount ==
    /\ [](\A k \in DOMAIN sales.items :
            sales.items[k].amount = sales.items[k].quantity * sales.items[k].rate)
    /\ [][Len(sales'.items) = Len(sales.items) =>
            \E i \in 1 .. MaxFormItems + 1 :
               /\ \A j \in DOMAIN sales.items \ {i} : sales'.items[j] = sales.items[j]
               /\ (i \in DOMAIN sales.items
                   /\ sales'.items[i].description # sales.items[i].description) =>
                      /\ sales'.items[i].quantity = sales.items[i].quantity
                      /\ sales'.items[i].rate = sales.items[i].rate
                      /\ sales'.items[i].amount = sales.items[i].amount]_vars

TwoItemsEdited ==
    /\ Len(sales.items) = 2
    /\ sales.items[1].description = "Widget"
    /\ sales.items[1].quantity = 2
    /\ sales.items[1].rate = 1
    /\ sales.items[1].amount = 2
    /\ sales.items[2] = ItemInit

\* The names of the eight sheets in the order the handler appends them.
ReportSheets(lng) ==
    << t(lng, "accounting.trendAnalysis"), t(lng, "accounting.trialBalance"),
       t(lng, "accounting.profitAndLoss"), t(lng, "accounting.balanceSheet"),
       t(lng, "accounting.cashFlow"), t(lng, "accounting.industryAnalysis"),
       t(lng, "accounting.financialRatios"), t(lng, "accounting.marketMetrics") >>

\* C13: every call of handleExportReportsExcel ends without an error, having
\* appended the eight sheets in their order and written the file
\* financial-reports-{from}-to-{to}.xlsx.
ReportsExportCompletes ==
    exported.done =>
        /\ exported.page.thrown = ""
        /\ \E lng \in {"en", "ne"} : exported.page.sheets = ReportSheets(lng)
        /\ \E from \in DateInputs, to \in DateInputs :
              exported.page.file = "financial-reports-" \o from \o "-to-" \o to \o ".xlsx"

\* C14: every call of generateExcel writes one file, named filename followed
\* by '.xlsx', holding one sheet named sheetName; the sheet's columns begin
\* with the headers in their order, its rows are the objects of data in
\* their order, cell by cell; and two calls with the same options write the
\* same file, whatever was written between them.
GenerateExcelOneSheet ==
    /\ [](\A k \in DOMAIN downloads :
            LET o == downloads[k].options
                f == downloads[k].file
            IN /\ f.name = o.filename \o ".xlsx"
               /\ Len(f.sheets) = 1
               /\ f.sheets[1].name = o.sheetName
               /\ SubSeq(f.sheets[1].columns, 1, Len(o.headers)) = o.headers
               /\ Len(f.sheets[1].rows) = Len(o.data)
               /\ \A r \in DOMAIN o.data : \A c \in DOMAIN f.sheets[1].columns :
                     LET key == f.sheets[1].columns[c] IN
                     /\ key \in DOMAIN o.data[r] => f.sheets[1].rows[r][c] = o.data[r][key]
                     /\ key \notin DOMAIN o.data[r] => f.sheets[1].rows[r][c] = ""
               /\ \A j \in DOMAIN downloads :
                     downloads[j].options = o => downloads[j].file = f)
    /\ [][downloads' # downloads =>
            /\ Len(downloads') = Len(downloads) + 1
            /\ SubSeq(downloads', 1, Len(downloads)) = downloads]_vars

TwoRowsExportedTwice ==
    /\ Len(downloads) = 2
    /\ downloads[1].options = downloads[2].options
    /\ Len(downloads[1].options.data) = 2
    /\ downloads[1].options.headers = <<"Debit", "Date">>
    /\ downloads[2].file.sheets[1].columns = <<"Debit", "Date", "Note">>

\* C16: once no write and no fetchLedgerEntries is in flight, every ledger
\* entry the page has added to the store is in ledgerEntries exactly once,
\* under the id addDoc returned for it.
LedgerListTracksWrites ==
    (/\ ledgerWrites = << >>
     /\ \A i \in DOMAIN fetches : fetches[i].kind # "fetchLedgerEntries")
    => \A k \in DOMAIN store.ledgerEntries :
          k > Len(InitialStore.ledgerEntries) =>
             Cardinality({j \in DOMAIN accounting.ledgerEntries :
                            accounting.ledgerEntries[j].id = store.ledgerEntries[k].id}) = 1

\* C17: loading is true until the effect has run and false from then on; the
\* step that clears it is the one that calls the two fetch functions for the
\* user, and it waits for neither: the lists are as they were.
AccountingLoadingFlag ==
    /\ [](rendered = "Accounting" =>
            (accounting.loading <=> accounting.deps = NotRun))
    /\ [][(rendered = "Accounting" /\ rendered' = rendered) =>
            /\ ~accounting.loading => ~accounting'.loading
            /\ (accounting.loading /\ ~accounting'.loading) =>
                  /\ fetches' = fetches \o (IF HasTenant(user)
                         THEN << [kind |-> "fetchLedgerEntries", coll |-> "ledgerEntries",
                                  user |-> user, value |-> user.tenantId],
                                 [kind |-> "fetchJournalEntries", coll |-> "journalEntries",
                                  user |-> user, value |-> user.tenantId] >>
                         ELSE << >>)
                  /\ accounting'.ledgerEntries = accounting.ledgerEntries
                  /\ accounting'.journalEntries = accounting.journalEntries]_vars

PageShownWhileFetching ==
    /\ rendered = "Accounting"
    /\ ~accounting.loading
    /\ \E i \in DOMAIN fetches : fetches[i].kind = "fetchLedgerEntries"
    /\ \E i \in DOMAIN fetches : fetches[i].kind = "fetchJournalEntries"
    /\ accounting.ledgerEntries = << >>
    /\ accounting.journalEntries = << >>

\* An invoice of a tenant: one that a user of the tenant has written.
OfTenant(d, tenant) ==
    \E u \in TenantUsers : u.tenantId = tenant /\ d.tenantId = InvoiceTenant(u)

\* C18: the invoice list is empty until a submit has succeeded; a submit that
\* succeeds starts fetchInvoices for its user in the same step; and when
\* that call resolves the list is the invoices of the user's tenant in the
\* store, the new one among them.
InvoiceListRefreshed ==
    /\ [](InvoicesWritten = 0 => sales.invoices = << >>)
    /\ [][ /\ \A i \in DOMAIN invoiceWrites :
                Written(invoiceWrites, "invoices", i) =>
                   /\ Len(fetches') = Len(fetches) + 1
                   /\ fetches'[Len(fetches')].kind = "fetchInvoices"
                   /\ fetches'[Len(fetches')].user = invoiceWrites[i].user
           /\ (\A i \in DOMAIN invoiceWrites : ~Written(invoiceWrites, "invoices", i)) =>
                \A i \in DOMAIN fetches' : i > Len(fetches) => fetches'[i].kind # "fetchInvoices"
           /\ \A i \in DOMAIN fetches :
                (Resolves(i) /\ fetches[i].kind = "fetchInvoices") =>
                   sales'.invoices =
                      SelectSeq(store.invoices,
                                LAMBDA d : OfTenant(d, fetches[i].user.tenantId))
         ]_vars

\* The tab shown by the Accounting page never leaves its initial value.
ActiveTabStaysLedger ==
    accounting.activeTab = "ledger"

\* C19: each of the tabs 'ledger', 'journal' and 'reports' of the Accounting
\* page is shown at some point to a user who keeps using the page.
TabsReachable ==
    /\ <>(rendered = "Accounting" /\ accounting.activeTab = "ledger")
    /\ <>(rendered = "Accounting" /\ accounting.activeTab = "journal")
    /\ <>(rendered = "Accounting" /\ accounting.activeTab = "reports")

\* The days of the calendar the date inputs and the entries use, in order.
Calendar == << "2024-01-01", "2024-01-10", "2024-01-15", "2024-01-20", "2024-02-01" >>

Day(s) == CHOOSE k \in DOMAIN Calendar : Calendar[k] = s

OnCalendar(s) == \E k \in DOMAIN Calendar : Calendar[k] = s

\* The entries of a list dated from d to to, both days included.
Within(list, from, to) ==
    SelectSeq(list, LAMBDA entry : Day(from) <= Day(entry.date) /\ Day(entry.date) <= Day(to))

\* The cells of one column of the sheet of a file, row by row.
Column(file, key) ==
    LET sheet == file.sheets[1]
        c == CHOOSE c \in DOMAIN sheet.columns : sheet.columns[c] = key
    IN [r \in DOMAIN sheet.rows |-> sheet.rows[r][c]]

\* C20: with both date inputs set, the file an export writes is named after
\* from and to and holds one row per entry of the list dated from <= d <= to,
\* in the order of the list, for the ledger and for the journal; with from
\* after to it holds no row.
ExportDateFilter ==
    [][downloads' # downloads =>
         LET file == downloads'[Len(downloads')].file
             from == accounting.dateRange.from
             to == accounting.dateRange.to
             range == from \o "-to-" \o to \o ".xlsx"
             ledger == Within(accounting.ledgerEntries, from, to)
             journal == Within(accounting.journalEntries, from, to)
         IN /\ file.name \in {"ledger-entries-" \o range, "journal-entries-" \o range}
            /\ (OnCalendar(from) /\ OnCalendar(to)) =>
                 /\ file.name = "ledger-entries-" \o range =>
                      /\ Len(file.sheets[1].rows) = Len(ledger)
                      /\ Column(file, t(language, "accounting.date"))
                            = [k \in DOMAIN ledger |-> ledger[k].date]
                      /\ Column(file, t(language, "accounting.description"))
                            = [k \in DOMAIN ledger |-> ledger[k].description]
                 /\ file.name = "journal-entries-" \o range =>
                      /\ Len(file.sheets[1].rows) = Len(journal)
                      /\ Column(file, t(language, "accounting.date"))
                            = [k \in DOMAIN journal |-> journal[k].date]
                      /\ Column(file, t(language, "accounting.description"))
                            = [k \in DOMAIN journal |-> journal[k].description]
                 /\ Day(from) > Day(to) => file.sheets[1].rows = << >>
    ]_vars

\* The ledger has been exported up to the day of its first entry, which is
\* in the file while the later entry is not.
EntryOfLastDayExported ==
    /\ Len(accounting.ledgerEntries) = 2
    /\ accounting.ledgerEntries[1].date = Today
    /\ accounting.ledgerEntries[2].date = "2024-02-01"
    /\ accounting.dateRange = [from |-> "2024-01-01", to |-> Today]
    /\ Len(downloads) = 1
    /\ downloads[1].file.name = "ledger-entries-2024-01-01-to-2024-01-15.xlsx"
    /\ Len(downloads[1].file.sheets[1].rows) = 1
    /\ downloads[1].file.sheets[1].rows[1][1] = Today

\* The paths App declares a route for.
DeclaredPaths == {"/login"} \cup ProtectedPaths

\* C21: on a protected page every path the sidebar offers to the user has a
\* route declared in App, and a click on a sidebar link leads to a declared
\* page.
SidebarLinksResolve ==
    /\ [](rendered \in ProtectedPages =>
             \A path \in Sidebar(user) : App(path, authLoading, user) # "NoMatch")
    /\ [][(rendered \in ProtectedPages /\ location' # location /\ location' \in Sidebar(user))
             => (location' \in DeclaredPaths /\ rendered' \in ProtectedPages)]_vars

\* C22: every temporary element attached to document.body belongs to a
\* handlePrint that has not settled yet; once all have settled, none is
\* attached.
PrintLeavesBodyClean ==
    \A i \in DOMAIN body : body[i].pending

\* The number a printed amount stands for, in hundredths.
Amount(s) ==
    CASE s = "0.00" -> 0
      [] s = "1000.00" -> 100000
      [] s = "2000.00" -> 200000
      [] s = "3000.00" -> 300000
      [] s = "5000.00" -> 500000
      [] s = "8000.00" -> 800000
      [] s = "10000.00" -> 1000000
      [] s = "12000.00" -> 1200000
      [] s = "20000.00" -> 2000000
      [] s = "25000.00" -> 2500000
      [] s = "50000.00" -> 5000000
      [] s = "-3000.00" -> 0 - 300000
      [] s = "-5000.00" -> 0 - 500000
      [] s = "-6000.00" -> 0 - 600000

\* The sum of the amounts printed in a column over a set of rows; a heading
\* row prints none.
RECURSIVE TotalOf(_, _, _)
TotalOf(data, column, rows) ==
    IF rows = {} THEN 0
    ELSE LET i == CHOOSE i \in rows : TRUE
         IN (IF data[i][column] = "" THEN 0 ELSE Amount(data[i][column]))
            + TotalOf(data, column, rows \ {i})

\* The language a sheet was built in.
LanguageOf(data) ==
    CHOOSE lng \in {"en", "ne"} :
        \E key \in {"accounting.account", "accounting.description"} :
            t(lng, key) \in DOMAIN data[1]

\* The row labelled with the text of a key, without indentation.
RowOf(data, label, key) ==
    CHOOSE i \in DOMAIN data : data[i][label] = t(LanguageOf(data), key)

\* The rows listed under the row of a key, down to the next row of one of
\* the keys.
RowsUnder(data, label, key, keys) ==
    LET heads == {RowOf(data, label, k) : k \in keys}
        start == RowOf(data, label, key)
    IN {i \in DOMAIN data : i > start /\ \A j \in (start + 1) .. i : j \notin heads}

TrialBalanceBalances ==
    exported.done =>
        LET data == exported.page.trialBalanceData
            lng == LanguageOf(data)
        IN TotalOf(data, t(lng, "accounting.debit"), DOMAIN data)
             = TotalOf(data, t(lng, "accounting.credit"), DOMAIN data)

ProfitRowAddsUp ==
    exported.done =>
        LET data == exported.page.profitLossData
            lng == LanguageOf(data)
            label == t(lng, "accounting.description")
            amount == t(lng, "accounting.amount")
            keys == {"accounting.revenue", "accounting.expenses", "accounting.profit"}
        IN Amount(data[RowOf(data, label, "accounting.profit")][amount])
             = TotalOf(data, amount, RowsUnder(data, label, "accounting.revenue", keys))
               - TotalOf(data, amount, RowsUnder(data, label, "accounting.expenses", keys))

BalanceSheetBalances ==
    exported.done =>
        LET data == exported.page.balanceSheetData
            lng == LanguageOf(data)
            label == t(lng, "accounting.description")
            amount == t(lng, "accounting.amount")
            keys == {"accounting.assets", "accounting.liabilities", "accounting.equity"}
        IN TotalOf(data, amount, RowsUnder(data, label, "accounting.assets", keys))
             = TotalOf(data, amount, RowsUnder(data, label, "accounting.liabilities", keys))
               + TotalOf(data, amount, RowsUnder(data, label, "accounting.equity", keys))

CashFlowAddsUp ==
    exported.done =>
        LET data == exported.page.cashFlowData
            lng == LanguageOf(data)
            label == t(lng, "accounting.description")
            amount == t(lng, "accounting.amount")
            keys == {"accounting.operatingActivities", "accounting.investingActivities",
                     "accounting.financingActivities", "accounting.netCashFlow"}
        IN Amount(data[RowOf(data, label, "accounting.netCashFlow")][amount])
             = TotalOf(data, amount, RowsUnder(data, label, "accounting.operatingActivities", keys))
               + TotalOf(data, amount, RowsUnder(data, label, "accounting.investingActivities", keys))
               + TotalOf(data, amount, RowsUnder(data, label, "accounting.financingActivities", keys))

\* C23: in the report templates the debits of the trial balance add up to
\* its credits, the profit row is revenue less expenses, the assets of the
\* balance sheet equal its liabilities plus equity, and the net cash flow
\* row is the sum of the operating, investing and financing lines.
ReportTemplatesConsistent ==
    /\ TrialBalanceBalances
    /\ ProfitRowAddsUp
    /\ BalanceSheetBalances
    /\ CashFlowAddsUp

====
